---- MODULE Spec2Model ----
(***************************************************************************)
(* Model of dmitriz/issue-labeler: the session state machine               *)
(* (state-manager, break-manager, task-cycler), the priority resolver      *)
(* (selectNextIssue) and the batch labeling loop (labelAllIssues).         *)
(*                                                                         *)
(* The repository holds two revisions of the state manager:                *)
(*   "plain"  : src/src/state-manager.js:1-77, writeState rethrows;        *)
(*   "backup" : src/src/select-next.js:103-215, writeState returns a       *)
(*              boolean and global.__stateBackup keeps the state.          *)
(* Both are modelled; the variable `revision` says which one is loaded.    *)
(***************************************************************************)
EXTENDS Integers, Sequences, FiniteSets, TLC

(***************************************************************************)
(* Bounds                                                                  *)
(***************************************************************************)
MaxSuggestions == 3      \* longest break-suggestion list
MaxBelowZero == 3        \* how far below 0 the lastBreakIndex of a state file starts
MaxRuns == 4             \* runTaskCycler invocations per behaviour

Procs == {"p1", "p2"}    \* operating-system processes running the cycler

AllSuggestions == <<"A", "B", "C", "D", "E", "F">>

Modes == {"work", "break"}
Revisions == {"plain", "backup"}
WriteOutcomes == {"ok", "ENOENT", "EACCES"}

(***************************************************************************)
(* Session state records.  `numeric` is FALSE when the JSON object has no  *)
(* numeric lastBreakIndex field (typeof state.lastBreakIndex !== 'number').*)
(***************************************************************************)
State(m, i) == [mode |-> m, lastBreakIndex |-> i, numeric |-> TRUE]

StateNoIndex(m) == [mode |-> m, lastBreakIndex |-> 0, numeric |-> FALSE]

DEFAULT_STATE == State("break", -1)

\* content of the state file: absent, not JSON, or a JSON object
FileMissing == [kind |-> "missing", json |-> DEFAULT_STATE]

FileInvalid == [kind |-> "invalid", json |-> DEFAULT_STATE]

FileJson(s) == [kind |-> "json", json |-> s]

InitialFiles ==
    {FileMissing, FileInvalid}
      \cup {FileJson(State(m, i)) : m \in Modes, i \in (0 - MaxBelowZero)..(MaxSuggestions - 1)}
      \cup {FileJson(StateNoIndex(m)) : m \in Modes}

VARIABLES
    revision,          \* which state-manager revision is loaded
    breakSuggestions,  \* require('../break-suggestions'), read-only
    file,              \* session-state.json
    pc,                \* per process: position inside runTaskCycler
    ref,               \* per process: object the local `state` points to
    obj,               \* per process: the object JSON.parse produced
    defState,          \* per process: the module-level DEFAULT_STATE object
    backup,            \* per process: global.__stateBackup ("none","def","obj")
    nextIndex,         \* per process: nextIndex of getNextBreakSuggestion
    log,               \* per process: events of the current invocation
    runs,              \* number of invocations started
    initFile,          \* history: the file at the start
    writeFailed,       \* history: some writeFile call has failed
    memory             \* history, per process: the state computed since a
                       \* write of toggleSessionMode / updateBreakIndex failed

cyclerVars == <<revision, breakSuggestions, file, pc, ref, obj, defState,
                backup, nextIndex, log, runs, initFile, writeFailed, memory>>

(***************************************************************************)
(* Helpers                                                                 *)
(***************************************************************************)
\* variant: the mode is set, not toggled
OppositeMode_AlwaysWork(m) == "work"

\* state.mode === 'work' ? 'break' : 'work'
OppositeMode(m) == IF m = "work" THEN "break" ELSE "work"

\* JavaScript's % : the result takes the sign of the dividend
JsRem(a, n) == IF a >= 0 THEN a % n ELSE -((-a) % n)

\* the object a reference of process p points to
Deref(p, r) == IF r = "def" THEN defState[p] ELSE obj[p]

Ev(e, m, i, ok) == [e |-> e, mode |-> m, idx |-> i, num |-> TRUE, ok |-> ok]

\* a writeState call made by toggleSessionMode / updateBreakIndex
WriteEv(s, w) ==
    [e |-> "write", mode |-> s.mode, idx |-> s.lastBreakIndex,
     num |-> s.numeric, ok |-> (w = "ok")]

\* the writeState(DEFAULT_STATE) call made by readState
DefaultWriteEv(s, w) == [WriteEv(s, w) EXCEPT !.e = "write_default"]

Append1(p, ev) == [log EXCEPT ![p] = Append(@, ev)]

Append2(p, ev1, ev2) == [log EXCEPT ![p] = Append(Append(@, ev1), ev2)]

NoMemory == [on |-> FALSE, state |-> DEFAULT_STATE]

\* fs.writeFile(STATE_FILE_PATH, JSON.stringify(state)) with outcome w
FileAfterWrite(s, w) == IF w = "ok" THEN FileJson(s) ELSE file

CyclerInit ==
    /\ revision \in Revisions
    /\ breakSuggestions \in {SubSeq(AllSuggestions, 1, n) : n \in 0..MaxSuggestions}
    /\ file \in InitialFiles
    /\ pc = [p \in Procs |-> "idle"]
    /\ ref = [p \in Procs |-> "obj"]
    /\ obj = [p \in Procs |-> DEFAULT_STATE]
    /\ defState = [p \in Procs |-> DEFAULT_STATE]
    /\ backup = [p \in Procs |-> "none"]
    /\ nextIndex = [p \in Procs |-> 0]
    /\ log = [p \in Procs |-> <<>>]
    /\ runs = 0
    /\ initFile = file
    /\ writeFailed = FALSE
    /\ memory = [p \in Procs |-> NoMemory]

(***************************************************************************)
(* readState: the positions that call it and where each call returns to    *)
(***************************************************************************)
ReadSites == {"toggle_read", "gnbs_read", "ubi_read"}

DefaultWriteSites == {"toggle_wd", "gnbs_wd", "ubi_wd"}

\* the catch branch of readState entered from a read site
CatchOf(site) ==
    CASE site = "toggle_read" -> "toggle_wd"
      [] site = "gnbs_read" -> "gnbs_wd"
      [] OTHER -> "ubi_wd"

\* where readState returns to
ReturnOf(site) ==
    CASE site \in {"toggle_read", "toggle_wd"} -> "toggle_write"
      [] site \in {"gnbs_read", "gnbs_wd"} -> "gnbs_calc"
      [] OTHER -> "ubi_write"

\* runTaskCycler's catch: console.error, then the invocation ends
Caught(p) == Append1(p, Ev("error", "-", 0, FALSE))

(***************************************************************************)
(* runTaskCycler is entered.  Sequential use: no other invocation is       *)
(* running (the single-instance assumption of the tool).                   *)
(***************************************************************************)
StartRun(p) ==
    /\ pc[p] = "idle"
    /\ \A q \in Procs : pc[q] = "idle"
    /\ runs < MaxRuns
    /\ pc' = [pc EXCEPT ![p] = "toggle_read"]
    /\ runs' = runs + 1
    /\ UNCHANGED <<revision, breakSuggestions, file, ref, obj, defState,
                   backup, nextIndex, log, initFile, writeFailed, memory>>

(***************************************************************************)
(* readState, try block: the in-memory backup (backup revision only),      *)
(* else fs.readFile + JSON.parse; a failure enters the catch block.        *)
(***************************************************************************)
ReadState(p) ==
    /\ pc[p] \in ReadSites
    /\ IF revision = "backup" /\ backup[p] # "none"
         THEN /\ ref' = [ref EXCEPT ![p] = backup[p]]
              /\ obj' = obj
              /\ pc' = [pc EXCEPT ![p] = ReturnOf(pc[p])]
         ELSE IF file.kind = "json"
           THEN /\ ref' = [ref EXCEPT ![p] = "obj"]
                /\ obj' = [obj EXCEPT ![p] = file.json]
                /\ pc' = [pc EXCEPT ![p] = ReturnOf(pc[p])]
           ELSE /\ pc' = [pc EXCEPT ![p] = CatchOf(pc[p])]
                /\ UNCHANGED <<ref, obj>>
    /\ log' = IF pc[p] = "gnbs_read"
                THEN Append1(p, Ev("lookup", "-", 0, TRUE)) ELSE log
    /\ UNCHANGED <<revision, breakSuggestions, file, defState, backup,
                   nextIndex, runs, initFile, writeFailed, memory>>

(***************************************************************************)
(* readState, catch block: writeState(DEFAULT_STATE); return DEFAULT_STATE *)
(* (the module-level object itself, not a copy).                           *)
(***************************************************************************)
WriteDefault(p) ==
    /\ pc[p] \in DefaultWriteSites
    /\ \E w \in WriteOutcomes :
         /\ file' = FileAfterWrite(defState[p], w)
         /\ writeFailed' = (writeFailed \/ w # "ok")
         /\ IF w # "ok" /\ revision = "plain"
              THEN \* writeState rethrows out of the catch block
                   /\ pc' = [pc EXCEPT ![p] = "done"]
                   /\ log' = Append2(p, DefaultWriteEv(defState[p], w),
                                     Ev("error", "-", 0, FALSE))
                   /\ UNCHANGED <<ref, backup>>
              ELSE /\ pc' = [pc EXCEPT ![p] = ReturnOf(pc[p])]
                   /\ log' = Append1(p, DefaultWriteEv(defState[p], w))
                   /\ ref' = [ref EXCEPT ![p] = "def"]
                   /\ backup' = IF w # "ok"
                                  THEN [backup EXCEPT ![p] = "def"]
                                  ELSE backup
    /\ UNCHANGED <<revision, breakSuggestions, obj, defState, nextIndex,
                   runs, initFile, memory>>

\* the object `state` points to is assigned in place
Assign(p, s) ==
    /\ defState' = IF ref[p] = "def" THEN [defState EXCEPT ![p] = s] ELSE defState
    /\ obj' = IF ref[p] = "def" THEN obj ELSE [obj EXCEPT ![p] = s]

(***************************************************************************)
(* writeState(state) called by toggleSessionMode / updateBreakIndex with   *)
(* outcome w; `next` is the position after a normal return.                *)
(***************************************************************************)
WriteState(p, s, w, next) ==
    /\ file' = FileAfterWrite(s, w)
    /\ writeFailed' = (writeFailed \/ w # "ok")
    /\ memory' = IF w # "ok" \/ memory[p].on
                   THEN [memory EXCEPT ![p] = [on |-> TRUE, state |-> s]]
                   ELSE memory
    /\ IF w # "ok" /\ revision = "plain"
         THEN /\ pc' = [pc EXCEPT ![p] = "done"]
              /\ log' = Append2(p, WriteEv(s, w), Ev("error", "-", 0, FALSE))
              /\ backup' = backup
         ELSE /\ pc' = [pc EXCEPT ![p] = next]
              /\ log' = Append1(p, WriteEv(s, w))
              /\ backup' = IF w # "ok"
                             THEN [backup EXCEPT ![p] = ref[p]]
                             ELSE backup

\* variant of ToggleWrite: the toggled state is kept in memory and the
\* session handler starts without the write
ToggleWrite_NotWritten(p) ==
    /\ pc[p] = "toggle_write"
    /\ LET s == [Deref(p, ref[p]) EXCEPT !.mode = OppositeMode(@)]
       IN /\ Assign(p, s)
          /\ pc' = [pc EXCEPT ![p] = IF s.mode = "work" THEN "fetch" ELSE "gnbs_read"]
    /\ UNCHANGED <<revision, breakSuggestions, file, ref, backup, nextIndex,
                   log, runs, initFile, writeFailed, memory>>

\* variant of ToggleWrite: the toggled state is built afresh from the
\* defaults instead of being the state read with its mode flipped
ToggleWrite_ResetsIndex(p) ==
    /\ pc[p] = "toggle_write"
    /\ LET s == State(OppositeMode(Deref(p, ref[p]).mode), -1)
       IN /\ Assign(p, s)
          /\ \E w \in WriteOutcomes :
               WriteState(p, s, w, IF s.mode = "work" THEN "fetch" ELSE "gnbs_read")
    /\ UNCHANGED <<revision, breakSuggestions, ref, nextIndex, runs, initFile>>

(***************************************************************************)
(* toggleSessionMode after its readState: flip mode, write, return; then   *)
(* runTaskCycler branches on updatedState.mode.                            *)
(***************************************************************************)
ToggleWrite(p) ==
    /\ pc[p] = "toggle_write"
    /\ LET s == [Deref(p, ref[p]) EXCEPT !.mode = OppositeMode(@)]
       IN /\ Assign(p, s)
          /\ \E w \in WriteOutcomes :
               WriteState(p, s, w, IF s.mode = "work" THEN "fetch" ELSE "gnbs_read")
    /\ UNCHANGED <<revision, breakSuggestions, ref, nextIndex, runs, initFile>>

(***************************************************************************)
(* Priority resolver: issues as the tracker returns them                   *)
(***************************************************************************)
MaxIssues == 3           \* longest fetched issue list
MaxTime == 2             \* distinct valid updated_at instants

LabelNames == {"urgent", "Important"}

\* String.prototype.toLowerCase on the label names in use
ToLowerCase(l) ==
    CASE l = "Important" -> "important"
      [] l = "Urgent" -> "urgent"
      [] OTHER -> l

\* updated_at: an ISO timestamp (instant t), null, or missing / unparseable
IsoDate(t) == [k |-> "iso", t |-> t]

NullDate == [k |-> "null", t |-> 0]

InvalidDate == [k |-> "invalid", t |-> 0]

UpdatedAtValues == {IsoDate(t) : t \in 1..MaxTime} \cup {NullDate, InvalidDate}

\* labels: hasLabels is FALSE when issue.labels is undefined
IssueShapes ==
    [hasLabels : {TRUE}, labels : SUBSET LabelNames, updated_at : UpdatedAtValues]
      \cup [hasLabels : {FALSE}, labels : {{}}, updated_at : UpdatedAtValues]

MkIssue(n, sh) ==
    [number |-> n, hasLabels |-> sh.hasLabels, labels |-> sh.labels,
     updated_at |-> sh.updated_at]

\* issue lists of length n; the issue at position i has number i
IssueLists(n) == {[i \in 1..n |-> MkIssue(i, f[i])] : f \in [1..n -> IssueShapes]}

\* new Date(x) as a number: NaN for an invalid date, 0 for null
DateValue(u) ==
    CASE u.k = "iso" -> [nan |-> FALSE, ms |-> u.t]
      [] u.k = "null" -> [nan |-> FALSE, ms |-> 0]
      [] OTHER -> [nan |-> TRUE, ms |-> 0]

\* variant of the comparator: most recently updated first
CompareUpdated_Descending(a, b) ==
    LET x == DateValue(a.updated_at)
        y == DateValue(b.updated_at)
    IN IF x.nan \/ y.nan THEN 0 ELSE y.ms - x.ms

\* the sort comparator; Array.prototype.sort reads a NaN result as +0
CompareUpdated(a, b) ==
    LET x == DateValue(a.updated_at)
        y == DateValue(b.updated_at)
    IN IF x.nan \/ y.nan THEN 0 ELSE x.ms - y.ms

\* getIssuesWithLabel(issues, label), the (issues[], label) case
HasLabel(issue, label) ==
    /\ issue.hasLabels
    /\ \E l \in issue.labels : ToLowerCase(l) = ToLowerCase(label)

getIssuesWithLabel(issues, label) == SelectSeq(issues, LAMBDA i : HasLabel(i, label))

(***************************************************************************)
(* Array.prototype.sort as Node's V8 runs it on a short array: find the    *)
(* initial run (reversed when strictly descending), then binary insertion. *)
(***************************************************************************)
RECURSIVE RunEnd(_, _, _)
RunEnd(s, idx, desc) ==
    IF idx > Len(s) THEN idx - 1
    ELSE LET o == CompareUpdated(s[idx], s[idx - 1])
         IN IF (desc /\ o >= 0) \/ (~desc /\ o < 0)
              THEN idx - 1
              ELSE RunEnd(s, idx + 1, desc)

Reverse(s) == [i \in 1..Len(s) |-> s[Len(s) + 1 - i]]

\* variant of the binary search: the pivot goes before its equals
RECURSIVE InsertPos_BeforeEquals(_, _, _, _)
InsertPos_BeforeEquals(s, pivot, left, right) ==
    IF left >= right THEN left
    ELSE LET mid == left + ((right - left) \div 2)
         IN IF CompareUpdated(pivot, s[mid]) <= 0
              THEN InsertPos_BeforeEquals(s, pivot, left, mid)
              ELSE InsertPos_BeforeEquals(s, pivot, mid + 1, right)

RECURSIVE InsertPos(_, _, _, _)
InsertPos(s, pivot, left, right) ==
    IF left >= right THEN left
    ELSE LET mid == left + ((right - left) \div 2)
         IN IF CompareUpdated(pivot, s[mid]) < 0
              THEN InsertPos(s, pivot, left, mid)
              ELSE InsertPos(s, pivot, mid + 1, right)

RECURSIVE BinaryInsertionSort(_, _)
BinaryInsertionSort(s, start) ==
    IF start > Len(s) THEN s
    ELSE LET pivot == s[start]
             pos == InsertPos(s, pivot, 1, start)
             t == [i \in 1..Len(s) |->
                     IF i < pos \/ i > start THEN s[i]
                     ELSE IF i = pos THEN pivot ELSE s[i - 1]]
         IN BinaryInsertionSort(t, start + 1)

SortByUpdated(s) ==
    IF Len(s) < 2 THEN s
    ELSE LET desc == CompareUpdated(s[2], s[1]) < 0
             run == RunEnd(s, 3, desc)
             t == IF desc
                    THEN Reverse(SubSeq(s, 1, run)) \o SubSeq(s, run + 1, Len(s))
                    ELSE s
         IN BinaryInsertionSort(t, run + 1)

NoIssue == [number |-> 0, hasLabels |-> FALSE, labels |-> {},
            updated_at |-> InvalidDate]

\* a returned value: null, undefined, or an issue object
Null == [kind |-> "null", issue |-> NoIssue]

Undefined == [kind |-> "undefined", issue |-> NoIssue]

Found(i) == [kind |-> "issue", issue |-> i]

\* array[0]
FirstOf(s) == IF Len(s) = 0 THEN Undefined ELSE Found(s[1])

\* variants of the urgent stage: always replacing the working set / no stage
UrgentStage_AlwaysReplace(issues) == getIssuesWithLabel(issues, "urgent")

UrgentStage_Skipped(issues) == issues

\* the working set after the 'urgent' stage
UrgentStage(issues) ==
    LET urgentIssues == getIssuesWithLabel(issues, "urgent")
    IN IF Len(urgentIssues) # 0 THEN urgentIssues ELSE issues

\* variant of the important stage: the working set is always replaced
ImportantStage_AlwaysReplace(issues) == getIssuesWithLabel(issues, "important")

\* the working set after the 'important' stage
ImportantStage(issues) ==
    LET importantIssues == getIssuesWithLabel(issues, "important")
    IN IF Len(importantIssues) # 0 THEN importantIssues ELSE issues

\* the working set that reaches the sort
WorkingSet(issues) == ImportantStage(UrgentStage(issues))

\* selectNextIssue on the list getAllOpenIssues resolved with
selectNextIssue(issues) ==
    IF Len(issues) = 0 THEN Null
    ELSE FirstOf(SortByUpdated(WorkingSet(issues)))

(***************************************************************************)
(* handleBreakSession: selectNextIssue fetches the open issues; a fetch    *)
(* that fails after its retries rejects and runTaskCycler's catch logs it. *)
(***************************************************************************)
FetchedByCycler == IssueLists(0) \cup IssueLists(1)

ReportOf(issues) ==
    LET issue == selectNextIssue(issues)
    IN IF issue.kind # "issue"
         THEN Ev("print_no_issues", "-", 0, TRUE)
         ELSE Ev("print_task", "-", issue.issue.number, TRUE)

\* variant of HandleBreakSession: a failed fetch puts mode 'break' back
\* into the state file
HandleBreakSession_RollsBack(p) ==
    /\ pc[p] = "fetch"
    /\ \/ /\ log' = Append2(p, Ev("fetch", "-", 0, FALSE), Ev("error", "-", 0, FALSE))
          /\ file' = IF file.kind = "json"
                       THEN FileJson([file.json EXCEPT !.mode = "break"])
                       ELSE file
       \/ /\ \E issues \in FetchedByCycler :
               log' = Append2(p, Ev("fetch", "-", 0, TRUE), ReportOf(issues))
          /\ file' = file
    /\ pc' = [pc EXCEPT ![p] = "done"]
    /\ UNCHANGED <<revision, breakSuggestions, ref, obj, defState,
                   backup, nextIndex, runs, initFile, writeFailed, memory>>

HandleBreakSession(p) ==
    /\ pc[p] = "fetch"
    /\ \/ log' = Append2(p, Ev("fetch", "-", 0, FALSE), Ev("error", "-", 0, FALSE))
       \/ \E issues \in FetchedByCycler :
            log' = Append2(p, Ev("fetch", "-", 0, TRUE), ReportOf(issues))
    /\ pc' = [pc EXCEPT ![p] = "done"]
    /\ UNCHANGED <<revision, breakSuggestions, file, ref, obj, defState,
                   backup, nextIndex, runs, initFile, writeFailed, memory>>

(***************************************************************************)
(* getNextBreakSuggestion after its readState: currentIndex, the empty     *)
(* list guard, nextIndex, and the entry of updateBreakIndex(nextIndex)     *)
(* (whose argument check exists in the backup revision only).              *)
(***************************************************************************)
CurrentIndex(s) == IF s.numeric THEN s.lastBreakIndex ELSE -1

\* variant: the wrap-around is taken one position late
NextBreakIndex_WrapsLate(s, n) == JsRem(CurrentIndex(s) + 1, n + 1)

\* variant: every call moves two positions on
NextBreakIndex_SkipsOne(s, n) == JsRem(CurrentIndex(s) + 2, n)

NextBreakIndex(s, n) == JsRem(CurrentIndex(s) + 1, n)

\* variant of GetNextBreakSuggestion without the empty-list guard: the
\* index is computed and stored whatever the length of the list
GetNextBreakSuggestion_NoGuard(p) ==
    /\ pc[p] = "gnbs_calc"
    /\ LET n == Len(breakSuggestions)
           nxt == IF n = 0 THEN 0 ELSE NextBreakIndex(Deref(p, ref[p]), n)
       IN IF revision = "backup" /\ nxt < -1
            THEN /\ log' = Caught(p)
                 /\ pc' = [pc EXCEPT ![p] = "done"]
                 /\ nextIndex' = nextIndex
            ELSE /\ log' = log
                 /\ pc' = [pc EXCEPT ![p] = "ubi_read"]
                 /\ nextIndex' = [nextIndex EXCEPT ![p] = nxt]
    /\ UNCHANGED <<revision, breakSuggestions, file, ref, obj, defState,
                   backup, runs, initFile, writeFailed, memory>>

GetNextBreakSuggestion(p) ==
    /\ pc[p] = "gnbs_calc"
    /\ LET n == Len(breakSuggestions)
           nxt == NextBreakIndex(Deref(p, ref[p]), n)
       IN IF n = 0
            THEN /\ log' = Append1(p, Ev("print_none", "-", 0, TRUE))
                 /\ pc' = [pc EXCEPT ![p] = "done"]
                 /\ nextIndex' = nextIndex
            ELSE IF revision = "backup" /\ nxt < -1
              THEN /\ log' = Caught(p)
                   /\ pc' = [pc EXCEPT ![p] = "done"]
                   /\ nextIndex' = nextIndex
              ELSE /\ log' = log
                   /\ pc' = [pc EXCEPT ![p] = "ubi_read"]
                   /\ nextIndex' = [nextIndex EXCEPT ![p] = nxt]
    /\ UNCHANGED <<revision, breakSuggestions, file, ref, obj, defState,
                   backup, runs, initFile, writeFailed, memory>>

(***************************************************************************)
(* updateBreakIndex after its readState: assign lastBreakIndex and write   *)
(***************************************************************************)
UpdateBreakIndex(p) ==
    /\ pc[p] = "ubi_write"
    /\ LET s == [Deref(p, ref[p]) EXCEPT !.lastBreakIndex = nextIndex[p],
                                         !.numeric = TRUE]
       IN /\ Assign(p, s)
          /\ \E w \in WriteOutcomes : WriteState(p, s, w, "print")
    /\ UNCHANGED <<revision, breakSuggestions, ref, nextIndex, runs, initFile>>

\* breakSuggestions[nextIndex], undefined when the index is out of range
SuggestionAt(i) ==
    IF i + 1 \in DOMAIN breakSuggestions THEN breakSuggestions[i + 1] ELSE "undefined"

\* handleWorkSession prints the suggestion getNextBreakSuggestion returned
PrintSuggestion(p) ==
    /\ pc[p] = "print"
    /\ log' = Append1(p, Ev("print_suggestion", SuggestionAt(nextIndex[p]),
                            nextIndex[p], TRUE))
    /\ pc' = [pc EXCEPT ![p] = "done"]
    /\ UNCHANGED <<revision, breakSuggestions, file, ref, obj, defState,
                   backup, nextIndex, runs, initFile, writeFailed, memory>>

\* runTaskCycler resolves; its locals die, the process globals stay
Finish(p) ==
    /\ pc[p] = "done"
    /\ pc' = [pc EXCEPT ![p] = "idle"]
    /\ log' = [log EXCEPT ![p] = <<>>]
    /\ ref' = [ref EXCEPT ![p] = "obj"]
    /\ obj' = IF backup[p] = "obj" THEN obj ELSE [obj EXCEPT ![p] = DEFAULT_STATE]
    /\ nextIndex' = [nextIndex EXCEPT ![p] = 0]
    /\ UNCHANGED <<revision, breakSuggestions, file, defState, backup, runs,
                   initFile, writeFailed, memory>>

\* the process exits and a new one loads the modules afresh
Restart(p) ==
    /\ pc[p] = "idle"
    /\ defState[p] # DEFAULT_STATE \/ backup[p] # "none" \/ memory[p].on
    /\ defState' = [defState EXCEPT ![p] = DEFAULT_STATE]
    /\ backup' = [backup EXCEPT ![p] = "none"]
    /\ obj' = [obj EXCEPT ![p] = DEFAULT_STATE]
    /\ memory' = [memory EXCEPT ![p] = NoMemory]
    /\ UNCHANGED <<revision, breakSuggestions, file, pc, ref, nextIndex, log,
                   runs, initFile, writeFailed>>

(***************************************************************************)
(* The resolver run on its own: selectNextIssue of task-cycler.js step by  *)
(* step on a fetched list, and the select-next script on the same list.    *)
(***************************************************************************)
VARIABLES
    fetched,           \* the list getAllOpenIssues resolved with
    working,           \* the local `issues` of selectNextIssue
    selPc,             \* position inside selectNextIssue / the script
    selected,          \* what selectNextIssue returned
    previous,          \* what the run before returned on the same list
    printed            \* the issue the select-next script printed

selectVars == <<fetched, working, selPc, selected, previous, printed>>

SelectIdle ==
    /\ fetched = <<>>
    /\ working = <<>>
    /\ selPc = "off"
    /\ selected = Null
    /\ previous = Null
    /\ printed = Null

SelectInit ==
    /\ \E n \in 0..MaxIssues : \E f \in [1..n -> IssueShapes] :
         fetched = [i \in 1..n |-> MkIssue(i, f[i])]
    /\ working = fetched
    /\ selPc = "fetched"
    /\ selected = Null
    /\ previous = Null
    /\ printed = Null

\* if (!issues.length) return null
ReturnNull ==
    /\ selPc = "fetched"
    /\ Len(working) = 0
    /\ selected' = Null
    /\ selPc' = "returned"
    /\ UNCHANGED <<fetched, working, previous, printed>>

\* Filter by urgent label if available
FilterUrgent ==
    /\ selPc = "fetched"
    /\ Len(working) # 0
    /\ working' = UrgentStage(working)
    /\ selPc' = "urgent_done"
    /\ UNCHANGED <<fetched, selected, previous, printed>>

\* Further filter by important label if available
FilterImportant ==
    /\ selPc = "urgent_done"
    /\ working' = ImportantStage(working)
    /\ selPc' = "important_done"
    /\ UNCHANGED <<fetched, selected, previous, printed>>

\* return issues.sort(...)[0]
SortAndReturn ==
    /\ selPc = "important_done"
    /\ selected' = FirstOf(SortByUpdated(working))
    /\ selPc' = "returned"
    /\ UNCHANGED <<fetched, working, previous, printed>>

\* the next invocation fetches the same list again
SelectAgain ==
    /\ selPc = "returned"
    /\ previous = Null
    /\ selected.kind = "issue"
    /\ previous' = selected
    /\ working' = fetched
    /\ selPc' = "fetched"
    /\ UNCHANGED <<fetched, selected, printed>>

\* the issue the select-next script prints ("Selected issue (oldest updated)")
selectNext(issues) ==
    IF Len(issues) = 0 THEN Null
    ELSE FirstOf(SortByUpdated(ImportantStage(UrgentStage(issues))))

RunSelectNextScript ==
    /\ selPc = "returned"
    /\ printed = Null
    /\ selected.kind = "issue"
    /\ printed' = selectNext(fetched)
    /\ UNCHANGED <<fetched, working, selPc, selected, previous>>

Step(p) ==
    \/ ReadState(p)
    \/ WriteDefault(p)
    \/ ToggleWrite(p)
    \/ HandleBreakSession(p)
    \/ GetNextBreakSuggestion(p)
    \/ UpdateBreakIndex(p)
    \/ PrintSuggestion(p)
    \/ Finish(p)
    \/ Restart(p)

(***************************************************************************)
(* Batch labeling: labelAllIssues of label-all-issues.js driving           *)
(* processIssue of label-issue.js                                          *)
(***************************************************************************)
MaxBatch == 3            \* longest batch of open issues

\* labels an issue of the batch already carries (undefined when ~hasLabels)
BatchIssueShapes ==
    [hasLabels : {TRUE}, labels : {{}, {"urgent"}, {"urgent", "Important"}}]
      \cup [hasLabels : {FALSE}, labels : {{}}]

BatchIssue(n, sh) == [number |-> n, hasLabels |-> sh.hasLabels, labels |-> sh.labels]

\* what callModel does: it throws, or resolves with {urgency, importance};
\* "" stands for null
ModelOutcomes ==
    [kind : {"throw"}, err : {"rate_limit", "unparseable", "network"},
     urgency : {""}, importance : {""}]
      \cup [kind : {"result"}, err : {""},
            urgency : {"", "Urgent", "low"}, importance : {"", "important"}]

\* before any callModel call of the batch
NoModel == [kind |-> "none", err |-> "", urgency |-> "", importance |-> ""]

\* labels.allowedLabels of config.js (no legacy allow-all mode is configured)
AllowedLabels == {"urgent", "important"}

ApplyOutcomes == {"ok", "throw"}

\* a processIssue result; `threw` marks a rejection instead of a result
Result(n, success, action, reason, labels) ==
    [issue |-> n, success |-> success, action |-> action, reason |-> reason,
     labels |-> labels, threw |-> FALSE]

NoResult == Result(0, FALSE, "", "", <<>>)

\* variant of the catch block: the error is thrown on, as main() does
CatchResult_Rethrows(issue, err) ==
    [Result(issue.number, FALSE, "", err, <<>>) EXCEPT !.threw = TRUE]

\* the catch block of processIssue
CatchResult(issue, err) == Result(issue.number, FALSE, "", "processing_error", <<>>)

\* if (urgency) labels.push(urgency); if (importance) labels.push(importance)
SuggestedLabels(m) ==
    (IF m.urgency # "" THEN <<m.urgency>> ELSE <<>>)
      \o (IF m.importance # "" THEN <<m.importance>> ELSE <<>>)

ExistingLabelNames(issue) == {ToLowerCase(l) : l \in issue.labels}

\* variant of the filter: the suggestion is compared as it is spelled
NewLabels_CaseSensitive(issue, labels) ==
    SelectSeq(labels, LAMBDA l : l \notin issue.labels)

NewLabels(issue, labels) ==
    SelectSeq(labels, LAMBDA l : ToLowerCase(l) \notin ExistingLabelNames(issue))

Summary(t, s, f, k, l) ==
    [total |-> t, success |-> s, failed |-> f, skipped |-> k, labeled |-> l]

\* the summary update of the loop body
Tally(sm, r) ==
    IF r.success
      THEN IF r.action = "labels_applied"
             THEN [sm EXCEPT !.success = @ + 1, !.labeled = @ + 1]
             ELSE IF r.action = "skipped_already_labeled"
               THEN [sm EXCEPT !.success = @ + 1, !.skipped = @ + 1]
               ELSE [sm EXCEPT !.success = @ + 1]
      ELSE [sm EXCEPT !.failed = @ + 1]

VARIABLES
    bPc,               \* position inside labelAllIssues
    bIssues,           \* the fetched open issues
    bIdx,              \* position of the loop in bIssues
    bCur,              \* result of the processIssue call in progress
    bNew,              \* newLabels of the processIssue call in progress
    bModel,            \* what callModel did in the processIssue call in progress
    bResults,          \* results
    bSummary,          \* summary
    bReturn,           \* the value labelAllIssues resolved with
    bCalls             \* outbound requests and delays, in order

batchVars == <<bPc, bIssues, bIdx, bCur, bNew, bModel, bResults, bSummary, bReturn,
               bCalls>>

NoReturn == [success |-> FALSE, hasSummary |-> FALSE, processed |-> -1,
             summary |-> Summary(0, 0, 0, 0, 0), results |-> <<>>]

BatchIdle ==
    /\ bPc = "off"
    /\ bIssues = <<>>
    /\ bIdx = 0
    /\ bCur = NoResult
    /\ bNew = <<>>
    /\ bModel = NoModel
    /\ bResults = <<>>
    /\ bSummary = Summary(0, 0, 0, 0, 0)
    /\ bReturn = NoReturn
    /\ bCalls = <<>>

BatchInit ==
    /\ bPc = "start"
    /\ bIssues = <<>>
    /\ bIdx = 0
    /\ bCur = NoResult
    /\ bNew = <<>>
    /\ bModel = NoModel
    /\ bResults = <<>>
    /\ bSummary = Summary(0, 0, 0, 0, 0)
    /\ bReturn = NoReturn
    /\ bCalls = <<>>

Call(op, n) == [op |-> op, issue |-> n]

\* reading the prompt template or fetching the open issues fails:
\* labelAllIssues rejects
BatchRejects ==
    /\ bPc = "start"
    /\ bPc' = "rejected"
    /\ UNCHANGED <<bIssues, bIdx, bCur, bNew, bModel, bResults, bSummary, bReturn,
                   bCalls>>

\* the open issues are fetched; an empty list returns at once
BatchFetch ==
    /\ bPc = "start"
    /\ \E n \in 0..MaxBatch : \E f \in [1..n -> BatchIssueShapes] :
         /\ bIssues' = [i \in 1..n |-> BatchIssue(i, f[i])]
         /\ IF n = 0
              THEN /\ bPc' = "returned"
                   /\ bReturn' = [NoReturn EXCEPT !.success = TRUE, !.processed = 0]
                   /\ UNCHANGED <<bIdx, bSummary>>
              ELSE /\ bPc' = "classify"
                   /\ bIdx' = 1
                   /\ bSummary' = Summary(n, 0, 0, 0, 0)
                   /\ bReturn' = bReturn
    /\ UNCHANGED <<bCur, bNew, bModel, bResults, bCalls>>

\* processIssue up to the applyLabels call
ProcessIssueClassify ==
    /\ bPc = "classify"
    /\ \E m \in ModelOutcomes :
         LET issue == bIssues[bIdx]
             labels == SuggestedLabels(m)
             newLabels == NewLabels(issue, labels)
         IN /\ bCalls' = Append(bCalls, Call("model", issue.number))
            /\ bModel' = m
            /\ IF m.kind = "throw"
                 THEN /\ bCur' = CatchResult(issue, m.err)
                      /\ bPc' = "record"
                      /\ bNew' = <<>>
                 ELSE IF Len(labels) = 0
                   THEN /\ bCur' = Result(issue.number, FALSE, "", "no_labels_determined", <<>>)
                        /\ bPc' = "record"
                        /\ bNew' = <<>>
                 ELSE IF ~issue.hasLabels
                   THEN \* issue.labels.map on undefined: TypeError, caught
                        /\ bCur' = CatchResult(issue, "type_error")
                        /\ bPc' = "record"
                        /\ bNew' = <<>>
                 ELSE IF Len(newLabels) = 0
                   THEN /\ bCur' = Result(issue.number, TRUE, "skipped_already_labeled", "", labels)
                        /\ bPc' = "record"
                        /\ bNew' = <<>>
                 ELSE /\ bCur' = bCur
                      /\ bPc' = "apply"
                      /\ bNew' = newLabels
    /\ UNCHANGED <<bIssues, bIdx, bResults, bSummary, bReturn>>

\* variant of ProcessIssueApply: a rejected label write is sent again
ProcessIssueApply_Retries ==
    /\ bPc = "apply"
    /\ LET issue == bIssues[bIdx]
       IN /\ bCalls' = Append(bCalls, Call("apply", issue.number))
          /\ \E a \in ApplyOutcomes :
               IF a = "ok"
                 THEN /\ bCur' = Result(issue.number, TRUE, "labels_applied", "", bNew)
                      /\ bPc' = "record"
                      /\ bNew' = <<>>
                 ELSE /\ bCur' = bCur
                      /\ bPc' = IF Len(bCalls) < 3 * MaxBatch THEN "apply" ELSE "record"
                      /\ bNew' = bNew
    /\ UNCHANGED <<bIssues, bIdx, bModel, bResults, bSummary, bReturn>>

\* processIssue: await applyLabels({..., labels: newLabels})
ProcessIssueApply ==
    /\ bPc = "apply"
    /\ LET issue == bIssues[bIdx]
       IN /\ bCalls' = Append(bCalls, Call("apply", issue.number))
          /\ \E a \in ApplyOutcomes :
               bCur' = IF a = "ok"
                         THEN Result(issue.number, TRUE, "labels_applied", "", bNew)
                         ELSE CatchResult(issue, "apply_failed")
    /\ bPc' = "record"
    /\ bNew' = <<>>
    /\ UNCHANGED <<bIssues, bIdx, bModel, bResults, bSummary, bReturn>>

\* variant of BatchRecord: the loop goes on without the delay
BatchRecord_NoDelay ==
    /\ bPc = "record"
    /\ IF bCur.threw
         THEN /\ bPc' = "rejected"
              /\ UNCHANGED <<bIdx, bResults, bSummary, bCalls>>
         ELSE /\ bResults' = Append(bResults, bCur)
              /\ bSummary' = Tally(bSummary, bCur)
              /\ bCalls' = bCalls
              /\ bIdx' = bIdx + 1
              /\ bPc' = IF bIdx = Len(bIssues) THEN "finish" ELSE "classify"
    /\ bCur' = NoResult
    /\ bModel' = NoModel
    /\ UNCHANGED <<bIssues, bNew, bReturn>>

\* the loop body after processIssue settled: push, tally, delay
BatchRecord ==
    /\ bPc = "record"
    /\ IF bCur.threw
         THEN \* the outer catch of labelAllIssues rethrows
              /\ bPc' = "rejected"
              /\ UNCHANGED <<bIdx, bResults, bSummary, bCalls>>
         ELSE /\ bResults' = Append(bResults, bCur)
              /\ bSummary' = Tally(bSummary, bCur)
              /\ bCalls' = Append(bCalls, Call("delay", bCur.issue))
              /\ bIdx' = bIdx + 1
              /\ bPc' = IF bIdx = Len(bIssues) THEN "finish" ELSE "classify"
    /\ bCur' = NoResult
    /\ bModel' = NoModel
    /\ UNCHANGED <<bIssues, bNew, bReturn>>

\* return { success: true, summary, results }
BatchReturn ==
    /\ bPc = "finish"
    /\ bReturn' = [success |-> TRUE, hasSummary |-> TRUE, processed |-> -1,
                   summary |-> bSummary, results |-> bResults]
    /\ bPc' = "returned"
    /\ UNCHANGED <<bIssues, bIdx, bCur, bNew, bModel, bResults, bSummary, bCalls>>

(***************************************************************************)
(* retry(fn, options) of github-api.js, as getAllOpenIssues uses it        *)
(***************************************************************************)
MaxRetries == 3          \* largest options.retries
MaxJitter == 99          \* largest Math.floor(Math.random() * 100)

RetryDelays == {500, 1000}

\* what a call of fn settles with: a value, or a thrown error
FnOutcomes == [ok : {TRUE}, val : {"v1", "v2"}] \cup [ok : {FALSE}, val : {"e1", "e2"}]

Unsettled == [ok |-> FALSE, val |-> "pending"]

NoError == "undefined"

RECURSIVE Pow2(_)
Pow2(n) == IF n = 0 THEN 1 ELSE 2 * Pow2(n - 1)

VARIABLES
    rPc,               \* position inside retry
    rRetries,          \* options.retries
    rDelay,            \* options.delay
    rAttempt,          \* attempt
    rLastError,        \* lastError
    rCalls,            \* history: what each fn() call settled with
    rWaits,            \* history: the timeouts awaited, in milliseconds
    rSettled           \* what the promise of retry settled with

retryVars == <<rPc, rRetries, rDelay, rAttempt, rLastError, rCalls, rWaits, rSettled>>

RetryIdle ==
    /\ rPc = "off"
    /\ rRetries = 0
    /\ rDelay = 0
    /\ rAttempt = 0
    /\ rLastError = NoError
    /\ rCalls = <<>>
    /\ rWaits = <<>>
    /\ rSettled = Unsettled

\* const { retries = 3, delay = 500 } = options; let lastError; attempt = 0
RetryInit ==
    /\ rPc = "test"
    /\ rRetries \in 0..MaxRetries
    /\ rDelay \in RetryDelays
    /\ rAttempt = 0
    /\ rLastError = NoError
    /\ rCalls = <<>>
    /\ rWaits = <<>>
    /\ rSettled = Unsettled

\* variant of the loop condition: one more attempt
LoopContinues_OneMore(attempt, retries) == attempt <= retries + 1

\* attempt <= retries
LoopContinues(attempt, retries) == attempt <= retries

\* the loop condition; after the loop: throw lastError
RetryTest ==
    /\ rPc = "test"
    /\ IF LoopContinues(rAttempt, rRetries)
         THEN /\ rPc' = "call"
              /\ rSettled' = rSettled
         ELSE /\ rPc' = "rejected"
              /\ rSettled' = [ok |-> FALSE, val |-> rLastError]
    /\ UNCHANGED <<rRetries, rDelay, rAttempt, rLastError, rCalls, rWaits>>

\* try { return await fn() } catch (error) { lastError = error; ... }
RetryCall ==
    /\ rPc = "call"
    /\ \E out \in FnOutcomes :
         /\ rCalls' = Append(rCalls, out)
         /\ IF out.ok
              THEN /\ rPc' = "resolved"
                   /\ rSettled' = out
                   /\ rLastError' = rLastError
              ELSE /\ rPc' = IF rAttempt < rRetries THEN "wait" ELSE "step"
                   /\ rSettled' = rSettled
                   /\ rLastError' = out.val
    /\ UNCHANGED <<rRetries, rDelay, rAttempt, rWaits>>

\* await setTimeout(delay * 2^attempt + jitter)
RetryWait ==
    /\ rPc = "wait"
    /\ \E jitter \in {0, MaxJitter} :
         rWaits' = Append(rWaits, rDelay * Pow2(rAttempt) + jitter)
    /\ rPc' = "step"
    /\ UNCHANGED <<rRetries, rDelay, rAttempt, rLastError, rCalls, rSettled>>

\* attempt++
RetryStep ==
    /\ rPc = "step"
    /\ rAttempt' = rAttempt + 1
    /\ rPc' = "test"
    /\ UNCHANGED <<rRetries, rDelay, rLastError, rCalls, rWaits, rSettled>>

(***************************************************************************)
(* validatePathSegment of github-api.js.  A string is a sequence of        *)
(* characters; the alphabet has one character of each kind the checks      *)
(* tell apart: "sp" is a space, "nl" a line feed, "soh" U+0001, "bs" a     *)
(* backslash.                                                              *)
(***************************************************************************)
MaxSegmentLen == 3       \* longest path segment

SegmentChars == {"a", "7", "_", "-", ".", "/", "bs", "sp", "nl", "soh", "$"}

\* what String.prototype.trim strips: white space and line terminators
IsWhitespace(c) == c \in {"sp", "nl"}

IsControl(c) == c \in {"nl", "soh"}

\* the character class [\w.-]
IsSafeChar(c) == c \in {"a", "7", "_", "-", "."}

Str(cs) == [type |-> "string", chars |-> cs]

\* arguments that are not strings
NonStrings == {[type |-> t, chars |-> <<>>] : t \in {"null", "undefined", "number"}}

RECURSIVE TrimStart(_)
TrimStart(cs) ==
    IF Len(cs) > 0 /\ IsWhitespace(cs[1]) THEN TrimStart(Tail(cs)) ELSE cs

RECURSIVE TrimEnd(_)
TrimEnd(cs) ==
    IF Len(cs) > 0 /\ IsWhitespace(cs[Len(cs)])
      THEN TrimEnd(SubSeq(cs, 1, Len(cs) - 1))
      ELSE cs

\* String.prototype.trim
Trim(cs) == TrimEnd(TrimStart(cs))

\* String.prototype.includes for a one- and a two-character needle
Includes(cs, c) == \E i \in DOMAIN cs : cs[i] = c

IncludesPair(cs, c, d) == \E i \in 1..(Len(cs) - 1) : cs[i] = c /\ cs[i + 1] = d

Throws(msg) == [kind |-> "throw", msg |-> msg, value |-> <<>>]

Returns(cs) == [kind |-> "return", msg |-> "", value |-> cs]

NotCalled == [kind |-> "none", msg |-> "", value |-> <<>>]

validatePathSegment(segment) ==
    IF segment.type \in {"null", "undefined"}
      THEN Throws("Path segment cannot be null or undefined")
    ELSE IF segment.type # "string"
      THEN Throws("Invalid path segment: Expected string")
    ELSE LET normalizedSegment == Trim(segment.chars)
         IN IF Len(normalizedSegment) = 0
              THEN Throws("Path segment cannot be empty")
            ELSE IF \/ IncludesPair(normalizedSegment, ".", ".")
                    \/ Includes(normalizedSegment, "/")
                    \/ Includes(normalizedSegment, "bs")
                    \/ normalizedSegment[1] = "."
              THEN Throws("Invalid path segment: Potential path traversal detected")
            ELSE IF ~(\A i \in DOMAIN normalizedSegment : IsSafeChar(normalizedSegment[i]))
              THEN Throws("Invalid path segment: must only contain safe characters")
            ELSE Returns(normalizedSegment)

VARIABLES
    vSegment,          \* the argument of validatePathSegment
    vResult            \* what the call did

validateVars == <<vSegment, vResult>>

ValidateIdle ==
    /\ vSegment = Str(<<>>)
    /\ vResult = NotCalled

ValidateInit ==
    /\ \/ vSegment \in NonStrings
       \/ \E n \in 0..MaxSegmentLen : \E cs \in [1..n -> SegmentChars] :
            vSegment = Str(cs)
    /\ vResult = NotCalled

ValidatePathSegment ==
    /\ vResult = NotCalled
    /\ vResult' = validatePathSegment(vSegment)
    /\ UNCHANGED vSegment

(***************************************************************************)
(* The output normalisation of callModel (the "type safety" block): the    *)
(* fields urgency and importance of the JSON the model returned.  A parsed *)
(* JSON value is a record; strings are character sequences as above, with  *)
(* "u" for any character that is not white space.                          *)
(***************************************************************************)
MaxStringLen == 2        \* longest string value in the parsed JSON
MaxArrayLen == 2         \* longest array value in the parsed JSON

JsonValue(t, n, cs, elems) == [t |-> t, n |-> n, cs |-> cs, elems |-> elems]

JNull == JsonValue("null", 0, <<>>, <<>>)

\* the key is absent
JUndefined == JsonValue("undefined", 0, <<>>, <<>>)

JBool(b) == JsonValue(IF b THEN "true" ELSE "false", 0, <<>>, <<>>)

JNum(n) == JsonValue("number", n, <<>>, <<>>)

JStr(cs) == JsonValue("string", 0, cs, <<>>)

JArr(elems) == JsonValue("array", 0, <<>>, elems)

JObj == JsonValue("object", 0, <<>>, <<>>)

JsonStrings(len) == UNION {{JStr(cs) : cs \in [1..n -> {"u", "sp"}]} : n \in 0..len}

JsonScalars == {JNull, JUndefined, JBool(TRUE), JBool(FALSE), JNum(0), JNum(7), JNum(123), JObj}

\* what an array holds: scalars, short strings, the empty array
JsonElements == {JNull, JNum(7), JArr(<<>>)} \cup JsonStrings(1)

JsonArrays == UNION {{JArr(es) : es \in [1..n -> JsonElements]} : n \in 0..MaxArrayLen}

JsonValues == JsonScalars \cup JsonStrings(MaxStringLen) \cup JsonArrays

\* if (value): JavaScript truthiness
Truthy(v) ==
    CASE v.t \in {"null", "undefined", "false"} -> FALSE
      [] v.t = "number" -> v.n # 0
      [] v.t = "string" -> Len(v.cs) > 0
      [] OTHER -> TRUE

\* the decimal digits of a natural number
RECURSIVE Digits(_)
Digits(n) == IF n < 10 THEN <<ToString(n)>> ELSE Digits(n \div 10) \o <<ToString(n % 10)>>

\* String(value); an array joins String of its elements with ",", null
\* and undefined elements giving the empty string
RECURSIVE ToStr(_)
RECURSIVE JoinElements(_)
JoinElements(es) ==
    IF Len(es) = 0 THEN <<>>
    ELSE (IF es[1].t \in {"null", "undefined"} THEN <<>> ELSE ToStr(es[1]))
           \o (IF Len(es) > 1 THEN <<",">> \o JoinElements(Tail(es)) ELSE <<>>)

ToStr(v) ==
    CASE v.t = "string" -> v.cs
      [] v.t = "number" -> Digits(v.n)
      [] v.t = "array" -> JoinElements(v.elems)
      [] v.t = "object" -> <<"[object Object]">>
      [] OTHER -> <<v.t>>

\* a normalised field: null or a string
NormNull == [isNull |-> TRUE, cs |-> <<>>]

NormStr(cs) == [isNull |-> FALSE, cs |-> cs]

\* let urgency = null; if (parsedJson.urgency) { ... }
NormaliseField(v) ==
    IF ~Truthy(v) THEN NormNull
    ELSE IF v.t = "string"
      THEN IF Trim(v.cs) # <<>> THEN NormStr(Trim(v.cs)) ELSE NormNull
      ELSE IF v.t \notin {"null", "undefined"} THEN NormStr(Trim(ToStr(v))) ELSE NormNull

VARIABLES
    nParsed,           \* parsedJson: its urgency and importance
    nResult            \* { urgency, importance } callModel returns

normVars == <<nParsed, nResult>>

NotNormalised == [done |-> FALSE, urgency |-> NormNull, importance |-> NormNull]

NormIdle ==
    /\ nParsed = [urgency |-> JUndefined, importance |-> JUndefined]
    /\ nResult = NotNormalised

NormInit ==
    /\ nParsed \in [urgency : JsonValues, importance : JsonValues]
    /\ nResult = NotNormalised

\* the type safety block of callModel
Normalise ==
    /\ ~nResult.done
    /\ nResult' = [done |-> TRUE,
                   urgency |-> NormaliseField(nParsed.urgency),
                   importance |-> NormaliseField(nParsed.importance)]
    /\ UNCHANGED nParsed

(***************************************************************************)
(* The two revisions of selectNextIssue behind handleBreakSession:         *)
(*   "cycler"  : src/src/task-cycler.js:21-45, no error handling;          *)
(*   "guarded" : src/unnamed/part_022:12-110, every step in a try block.   *)
(* Both are run on the outcome of one getAllOpenIssues call.               *)
(***************************************************************************)
MaxSortLen == 4          \* longest list handed to Array.prototype.sort

ResolverRevisions == {"cycler", "guarded"}

\* issues of the sorted lists: labelled 'urgent' or not, any updated_at
SortShapes ==
    [hasLabels : {TRUE}, labels : {{}, {"urgent"}}, updated_at : UpdatedAtValues]

\* what the promise of getAllOpenIssues settled with
FetchRejected == [ok |-> FALSE, issues |-> <<>>]

FetchResolved(issues) == [ok |-> TRUE, issues |-> issues]

\* selectNextIssue threw (its promise rejected)
Threw == [kind |-> "throw", issue |-> NoIssue]

\* the guarded comparator returns 0 when !a.updated_at || !b.updated_at,
\* so a null updated_at compares as an unparseable one does (NaN, read
\* as +0 by the sort), not as the epoch that new Date(null) is
AsGuardedKey(issue) ==
    IF issue.updated_at.k = "null"
      THEN [issue EXCEPT !.updated_at = InvalidDate]
      ELSE issue

\* issues.sort(...) of the guarded revision: the sort of SortByUpdated
\* under the guarded comparator; issue numbers identify the elements
GuardedSort(s) ==
    LET keyed == SortByUpdated([i \in DOMAIN s |-> AsGuardedKey(s[i])])
    IN [i \in DOMAIN s |->
          CHOOSE x \in {s[j] : j \in DOMAIN s} : x.number = keyed[i].number]

\* the array after issues.sort(...), per revision
SortedBy(rev, issues) ==
    IF rev = "cycler" THEN SortByUpdated(issues) ELSE GuardedSort(issues)

\* selectNextIssue of either revision on a settled fetch
selectNextIssueOf(rev, fetch) ==
    IF ~fetch.ok
      THEN IF rev = "cycler" THEN Threw ELSE Null
    ELSE IF Len(fetch.issues) = 0 THEN Null
    ELSE FirstOf(SortedBy(rev, WorkingSet(fetch.issues)))

VARIABLES
    gRevision,         \* which selectNextIssue is loaded
    gFetch,            \* what getAllOpenIssues settles with
    gPc,               \* position inside handleBreakSession
    gSorted,           \* the working array after issues.sort(...)
    gResult,           \* what selectNextIssue returned or threw
    gReport            \* what the caller printed

resolveVars == <<gRevision, gFetch, gPc, gSorted, gResult, gReport>>

ResolveIdle ==
    /\ gRevision = "cycler"
    /\ gFetch = FetchRejected
    /\ gPc = "off"
    /\ gSorted = <<>>
    /\ gResult = Null
    /\ gReport = "none"

ResolveInit ==
    /\ gRevision \in ResolverRevisions
    /\ \/ gFetch = FetchRejected
       \/ \E n \in 0..MaxSortLen : \E f \in [1..n -> SortShapes] :
            gFetch = FetchResolved([i \in 1..n |-> MkIssue(i, f[i])])
    /\ gPc = "call"
    /\ gSorted = <<>>
    /\ gResult = Null
    /\ gReport = "none"

\* const issue = await selectNextIssue()
SelectNextIssue ==
    /\ gPc = "call"
    /\ gResult' = selectNextIssueOf(gRevision, gFetch)
    /\ gSorted' = IF gFetch.ok /\ Len(gFetch.issues) > 0
                    THEN SortedBy(gRevision, WorkingSet(gFetch.issues))
                    ELSE <<>>
    /\ gPc' = "selected"
    /\ UNCHANGED <<gRevision, gFetch, gReport>>

\* handleBreakSession after selectNextIssue; a rejection reaches the
\* catch of runTaskCycler
ReportIssue ==
    /\ gPc = "selected"
    /\ gReport' = CASE gResult.kind = "throw" -> "Error in task cycler"
                    [] gResult.kind = "issue" -> "Your next task"
                    [] OTHER -> "No open issues available"
    /\ gPc' = "reported"
    /\ UNCHANGED <<gRevision, gFetch, gSorted, gResult>>

(***************************************************************************)
(* getAllOpenIssues: retry around listIssues({ state: 'open' }) with the   *)
(* owner and repo of the loaded configuration                              *)
(***************************************************************************)
MaxConfigLen == 2        \* longest configured owner / repo name

OpenIssuesRetries == 2   \* { retries: 2, ... }

OpenIssuesDelay == 1000  \* { ..., delay: 1000 }

ConfigChars == {"a", "/", "sp"}

UndefinedValue == [type |-> "undefined", chars |-> <<>>]

\* !value for undefined and for a string
Falsy(v) == v.type = "undefined" \/ Len(v.chars) = 0

ListStates == {"open", "closed", "all"}

\* what one listIssues call settles with
ListFailed(msg) == [ok |-> FALSE, val |-> msg]

ListResolved == [ok |-> TRUE, val |-> "issues"]

RequestFailed == ListFailed("GitHub API Error fetching issues")

\* the errors listIssues throws before any request is sent
ValidationErrors ==
    {"Parameter \"owner\" is required",
     "Parameter \"repo\" is required",
     "Parameter \"state\" must be one of: open, closed, all",
     "Path segment cannot be empty",
     "Invalid path segment: Potential path traversal detected",
     "Invalid path segment: must only contain safe characters"}

\* the parameter checks of listIssues: the error thrown, or "" when the
\* request is sent
ListValidation(owner, repo, state) ==
    IF Falsy(owner) THEN "Parameter \"owner\" is required"
    ELSE IF Falsy(repo) THEN "Parameter \"repo\" is required"
    ELSE IF state # "" /\ state \notin ListStates
      THEN "Parameter \"state\" must be one of: open, closed, all"
    ELSE LET safeOwner == validatePathSegment(Str(Trim(owner.chars)))
             safeRepo == validatePathSegment(Str(Trim(repo.chars)))
         IN IF safeOwner.kind = "throw" THEN safeOwner.msg
            ELSE IF safeRepo.kind = "throw" THEN safeRepo.msg
            ELSE ""

\* listIssues({ owner, repo, state }) when the request, if sent, ends as
\* `response` says
listIssues(owner, repo, state, response) ==
    LET invalid == ListValidation(owner, repo, state)
    IN IF invalid # "" THEN ListFailed(invalid)
       ELSE IF response = "ok" THEN ListResolved
       ELSE RequestFailed

VARIABLES
    lOwner,            \* defaultOwner
    lRepo,             \* defaultRepo
    lRequests          \* history: githubClient.get calls made

listVars == <<lOwner, lRepo, lRequests>>

ListIdle ==
    /\ lOwner = UndefinedValue
    /\ lRepo = UndefinedValue
    /\ lRequests = 0

ConfigValues ==
    {UndefinedValue} \cup
      UNION {{Str(cs) : cs \in [1..n -> ConfigChars]} : n \in 0..MaxConfigLen}

ListInit ==
    /\ lOwner \in ConfigValues
    /\ lRepo \in ConfigValues
    /\ lRequests = 0

\* retry(fn, { retries: 2, delay: 1000 }) is entered
OpenIssuesRetryInit ==
    /\ rPc = "test"
    /\ rRetries = OpenIssuesRetries
    /\ rDelay = OpenIssuesDelay
    /\ rAttempt = 0
    /\ rLastError = NoError
    /\ rCalls = <<>>
    /\ rWaits = <<>>
    /\ rSettled = Unsettled

\* the body of retry's try block inside getAllOpenIssues:
\* return await listIssues({ state: 'open' }); every error is caught
ListCall ==
    /\ rPc = "call"
    /\ \E response \in {"ok", "fail"} :
         LET out == listIssues(lOwner, lRepo, "open", response)
         IN /\ rCalls' = Append(rCalls, out)
            /\ lRequests' = IF ListValidation(lOwner, lRepo, "open") = ""
                              THEN lRequests + 1 ELSE lRequests
            /\ IF out.ok
                 THEN /\ rPc' = "resolved"
                      /\ rSettled' = out
                      /\ rLastError' = rLastError
                 ELSE /\ rPc' = IF rAttempt < rRetries THEN "wait" ELSE "step"
                      /\ rSettled' = rSettled
                      /\ rLastError' = out.val
    /\ UNCHANGED <<rRetries, rDelay, rAttempt, rWaits, lOwner, lRepo>>

(***************************************************************************)
(* History kept across invocations                                         *)
(***************************************************************************)
VARIABLES
    suggested,         \* the break suggestions returned so far, in order
    overlapped,        \* two invocations have been running at the same time
    afterFailedFetch   \* the path of the invocation after a failed fetch

historyVars == <<suggested, overlapped, afterFailedFetch>>

HistoryInit ==
    /\ suggested = <<>>
    /\ overlapped = FALSE
    /\ afterFailedFetch = "none"

vars == <<cyclerVars, selectVars, batchVars, historyVars, retryVars, validateVars,
          normVars, resolveVars, listVars>>

CyclerIdle ==
    /\ revision = "plain"
    /\ breakSuggestions = <<>>
    /\ file = FileMissing
    /\ pc = [p \in Procs |-> "idle"]
    /\ ref = [p \in Procs |-> "obj"]
    /\ obj = [p \in Procs |-> DEFAULT_STATE]
    /\ defState = [p \in Procs |-> DEFAULT_STATE]
    /\ backup = [p \in Procs |-> "none"]
    /\ nextIndex = [p \in Procs |-> 0]
    /\ log = [p \in Procs |-> <<>>]
    /\ runs = 0
    /\ initFile = file
    /\ writeFailed = FALSE
    /\ memory = [p \in Procs |-> NoMemory]

(***************************************************************************)
(* Spec: the task cycler used as intended, one invocation at a time        *)
(***************************************************************************)
Init ==
    CyclerInit /\ SelectIdle /\ BatchIdle /\ HistoryInit /\ RetryIdle
      /\ ValidateIdle /\ NormIdle /\ ResolveIdle /\ ListIdle

Next ==
    /\ \E p \in Procs : StartRun(p) \/ Step(p)
    /\ UNCHANGED <<selectVars, batchVars, historyVars, retryVars, validateVars,
                 normVars, resolveVars, listVars>>

Spec == Init /\ [][Next]_vars

(***************************************************************************)
(* SpecRotation: break transitions in a row.  handleWorkSession is called  *)
(* directly (it is exported) as well as through runTaskCycler, and the     *)
(* suggestion each call obtains is recorded.  Every file write succeeds.   *)
(***************************************************************************)
StartWorkSession(p) ==
    /\ pc[p] = "idle"
    /\ \A q \in Procs : pc[q] = "idle"
    /\ runs < MaxRuns
    /\ pc' = [pc EXCEPT ![p] = "gnbs_read"]
    /\ runs' = runs + 1
    /\ UNCHANGED <<revision, breakSuggestions, file, ref, obj, defState,
                   backup, nextIndex, log, initFile, writeFailed, memory>>

\* what getNextBreakSuggestion returned to handleWorkSession
Returned(p) == [text |-> SuggestionAt(nextIndex[p]), idx |-> nextIndex[p]]

NextRotation ==
    /\ \E p \in Procs :
         /\ StartRun(p) \/ StartWorkSession(p) \/ Step(p)
         /\ suggested' = IF pc[p] = "print"
                           THEN Append(suggested, Returned(p))
                           ELSE suggested
    /\ UNCHANGED <<overlapped, afterFailedFetch>>
    /\ ~writeFailed'      \* the file system accepts every write
    /\ UNCHANGED <<selectVars, batchVars, retryVars, validateVars,
                 normVars, resolveVars, listVars>>

\* the state file is absent, unreadable, or one the program wrote earlier
InitRotation ==
    /\ Init
    /\ file.kind = "json" /\ file.json.numeric => file.json.lastBreakIndex >= -1

SpecRotation == InitRotation /\ [][NextRotation]_vars

(***************************************************************************)
(* SpecSelect: the priority resolver on every bounded issue list           *)
(***************************************************************************)
InitSelect ==
    CyclerIdle /\ SelectInit /\ BatchIdle /\ HistoryInit /\ RetryIdle
      /\ ValidateIdle /\ NormIdle /\ ResolveIdle /\ ListIdle

NextSelect ==
    /\ \/ ReturnNull
       \/ FilterUrgent
       \/ FilterImportant
       \/ SortAndReturn
       \/ SelectAgain
       \/ RunSelectNextScript
    /\ UNCHANGED <<cyclerVars, batchVars, historyVars, retryVars, validateVars,
                 normVars, resolveVars, listVars>>

SpecSelect == InitSelect /\ [][NextSelect]_vars

(***************************************************************************)
(* SpecBatch: one labelAllIssues run on every bounded batch                *)
(***************************************************************************)
InitBatch ==
    CyclerIdle /\ SelectIdle /\ BatchInit /\ HistoryInit /\ RetryIdle
      /\ ValidateIdle /\ NormIdle /\ ResolveIdle /\ ListIdle

NextBatch ==
    /\ \/ BatchRejects
       \/ BatchFetch
       \/ ProcessIssueClassify
       \/ ProcessIssueApply
       \/ BatchRecord
       \/ BatchReturn
    /\ UNCHANGED <<cyclerVars, selectVars, historyVars, retryVars, validateVars,
                 normVars, resolveVars, listVars>>

SpecBatch == InitBatch /\ [][NextBatch]_vars

(***************************************************************************)
(* SpecRetry: one retry call for every bounded options.retries; the        *)
(* promise of fn settles and the timers fire (weak fairness).              *)
(***************************************************************************)
InitRetry ==
    CyclerIdle /\ SelectIdle /\ BatchIdle /\ HistoryInit /\ RetryInit
      /\ ValidateIdle /\ NormIdle /\ ResolveIdle /\ ListIdle

NextRetry ==
    /\ \/ RetryTest
       \/ RetryCall
       \/ RetryWait
       \/ RetryStep
    /\ UNCHANGED <<cyclerVars, selectVars, batchVars, historyVars, validateVars,
                 normVars, resolveVars, listVars>>

SpecRetry == InitRetry /\ [][NextRetry]_vars /\ WF_vars(NextRetry)

(***************************************************************************)
(* SpecValidate: validatePathSegment on every bounded argument             *)
(***************************************************************************)
InitValidate ==
    CyclerIdle /\ SelectIdle /\ BatchIdle /\ HistoryInit /\ RetryIdle
      /\ ValidateInit /\ NormIdle /\ ResolveIdle /\ ListIdle

NextValidate ==
    /\ ValidatePathSegment
    /\ UNCHANGED <<cyclerVars, selectVars, batchVars, historyVars, retryVars,
                   normVars, resolveVars, listVars>>

SpecValidate == InitValidate /\ [][NextValidate]_vars

(***************************************************************************)
(* SpecNormalise: the output normalisation on every bounded parsed JSON    *)
(***************************************************************************)
InitNormalise ==
    CyclerIdle /\ SelectIdle /\ BatchIdle /\ HistoryInit /\ RetryIdle
      /\ ValidateIdle /\ NormInit /\ ResolveIdle /\ ListIdle

NextNormalise ==
    /\ Normalise
    /\ UNCHANGED <<cyclerVars, selectVars, batchVars, historyVars, retryVars,
                   validateVars, resolveVars, listVars>>

SpecNormalise == InitNormalise /\ [][NextNormalise]_vars

(***************************************************************************)
(* SpecDefaults: the cycler of Spec, with a state file that can be removed *)
(* or overwritten with text that is not JSON between two invocations       *)
(* (session-state.json lies in the project directory, outside the          *)
(* program's control).  Every file write succeeds.                         *)
(***************************************************************************)
RemoveStateFile ==
    /\ \A p \in Procs : pc[p] = "idle"
    /\ file.kind = "json"
    /\ file' \in {FileMissing, FileInvalid}
    /\ UNCHANGED <<revision, breakSuggestions, pc, ref, obj, defState, backup,
                   nextIndex, log, runs, initFile, writeFailed, memory>>

NextDefaults ==
    /\ \/ \E p \in Procs : StartRun(p) \/ Step(p)
       \/ RemoveStateFile
    /\ ~writeFailed'      \* the file system accepts every write
    /\ UNCHANGED <<selectVars, batchVars, historyVars, retryVars, validateVars,
                 normVars, resolveVars, listVars>>

\* the first invocation finds no usable state file
InitDefaults == Init /\ file.kind # "json"

SpecDefaults == InitDefaults /\ [][NextDefaults]_vars

(***************************************************************************)
(* SpecResolve: handleBreakSession with either revision of selectNextIssue *)
(* on a failed fetch and on every bounded fetched list                     *)
(***************************************************************************)
InitResolve ==
    CyclerIdle /\ SelectIdle /\ BatchIdle /\ HistoryInit /\ RetryIdle
      /\ ValidateIdle /\ NormIdle /\ ResolveInit /\ ListIdle

NextResolve ==
    /\ \/ SelectNextIssue
       \/ ReportIssue
    /\ UNCHANGED <<cyclerVars, selectVars, batchVars, historyVars, retryVars,
                   validateVars, normVars, listVars>>

SpecResolve == InitResolve /\ [][NextResolve]_vars

(***************************************************************************)
(* SpecList: one getAllOpenIssues call for every bounded configuration     *)
(***************************************************************************)
InitList ==
    CyclerIdle /\ SelectIdle /\ BatchIdle /\ HistoryInit /\ OpenIssuesRetryInit
      /\ ValidateIdle /\ NormIdle /\ ResolveIdle /\ ListInit

NextList ==
    /\ \/ RetryTest /\ UNCHANGED listVars
       \/ ListCall
       \/ RetryWait /\ UNCHANGED listVars
       \/ RetryStep /\ UNCHANGED listVars
    /\ UNCHANGED <<cyclerVars, selectVars, batchVars, historyVars, validateVars,
                   normVars, resolveVars>>

SpecList == InitList /\ [][NextList]_vars

(***************************************************************************)
(* SpecConcurrent: invocations of runTaskCycler that may overlap, each in  *)
(* its own process, on one state file; nothing in state-manager.js locks   *)
(* the file.  Every file write succeeds.                                   *)
(***************************************************************************)
\* runTaskCycler is entered while another invocation may be running
StartRunConcurrent(p) ==
    /\ pc[p] = "idle"
    /\ runs < MaxRuns
    /\ pc' = [pc EXCEPT ![p] = "toggle_read"]
    /\ runs' = runs + 1
    /\ UNCHANGED <<revision, breakSuggestions, file, ref, obj, defState,
                   backup, nextIndex, log, initFile, writeFailed, memory>>

NextConcurrent ==
    /\ \E p \in Procs : StartRunConcurrent(p) \/ Step(p)
    /\ ~writeFailed'
    /\ overlapped' = (overlapped \/ \A p \in Procs : pc'[p] # "idle")
    /\ UNCHANGED <<suggested, afterFailedFetch>>
    /\ UNCHANGED <<selectVars, batchVars, retryVars, validateVars,
                   normVars, resolveVars, listVars>>

\* the state file is one the program wrote for a non-empty suggestion list
InitConcurrent ==
    /\ Init
    /\ Len(breakSuggestions) >= 1
    /\ file.kind = "json"
    /\ file.json.numeric
    /\ file.json.lastBreakIndex \in -1..(Len(breakSuggestions) - 1)

SpecConcurrent == InitConcurrent /\ [][NextConcurrent]_vars

(***************************************************************************)
(* SpecFailedFetch: the cycler of Spec with every file write succeeding;   *)
(* afterFailedFetch records which way the invocation that follows a        *)
(* failed issue fetch goes.                                                *)
(***************************************************************************)
\* the step of process p is a handleBreakSession whose fetch fails
FetchFails(p) ==
    /\ pc[p] = "fetch"
    /\ log'[p][Len(log'[p])].e = "error"

NextFailedFetch ==
    /\ \E p \in Procs :
         /\ StartRun(p) \/ Step(p)
         /\ afterFailedFetch' =
              IF FetchFails(p) THEN "pending"
              ELSE IF afterFailedFetch = "pending" /\ pc[p] = "toggle_write"
                THEN CASE pc'[p] = "gnbs_read" -> "work_to_break"
                       [] pc'[p] = "fetch" -> "break_to_work"
                       [] OTHER -> "threw"
              ELSE afterFailedFetch
    /\ ~writeFailed'      \* the file system accepts every write
    /\ UNCHANGED <<suggested, overlapped>>
    /\ UNCHANGED <<selectVars, batchVars, retryVars, validateVars,
                   normVars, resolveVars, listVars>>

SpecFailedFetch == Init /\ [][NextFailedFetch]_vars

(***************************************************************************)
(* Properties of the priority resolver (SpecSelect)                        *)
(***************************************************************************)
Range(s) == {s[i] : i \in DOMAIN s}

Labelled(issue, name) ==
    issue.hasLabels /\ \E l \in issue.labels : ToLowerCase(l) = name

ValidDate(issue) == ~DateValue(issue.updated_at).nan

Ms(issue) == DateValue(issue.updated_at).ms

\* C3: selectNextIssue returns null exactly when the fetched list is empty;
\* for a non-empty list it returns an element of the list, and neither the
\* urgent nor the important stage leaves an empty working set.
C3_NullIffEmpty ==
    /\ selPc \in {"urgent_done", "important_done"} =>
         /\ Len(working) > 0
         /\ Range(working) \subseteq Range(fetched)
    /\ selPc = "returned" =>
         /\ (selected.kind = "null") <=> (Len(fetched) = 0)
         /\ Len(fetched) > 0 =>
              selected.kind = "issue" /\ selected.issue \in Range(fetched)

C3_Witness ==
    /\ selPc = "returned"
    /\ Len(fetched) = 2
    /\ \A i \in Range(fetched) : ~Labelled(i, "urgent") /\ ~Labelled(i, "important")
    /\ selected.kind = "issue"
    /\ selected.issue \in Range(fetched)

\* priority class of an issue: 3 urgent and important, 2 urgent only,
\* 1 important only, 0 neither
PriorityClass(issue) ==
    (IF Labelled(issue, "urgent") THEN 2 ELSE 0)
      + (IF Labelled(issue, "important") THEN 1 ELSE 0)

\* C4: for a non-empty list the returned issue belongs to the highest
\* non-empty class (urgent and important) > (urgent) > (important) > (none);
\* if some issue is labelled urgent, the returned issue is labelled urgent.
C4_CascadePriority ==
    (selPc = "returned" /\ Len(fetched) > 0) =>
        /\ selected.kind = "issue"
        /\ \A i \in Range(fetched) :
             PriorityClass(i) <= PriorityClass(selected.issue)
        /\ (\E i \in Range(fetched) : Labelled(i, "urgent")) =>
             Labelled(selected.issue, "urgent")

\* an urgent issue wins although a non-urgent one is older
C4_Witness ==
    /\ selPc = "returned"
    /\ selected.kind = "issue"
    /\ Labelled(selected.issue, "urgent")
    /\ ~Labelled(selected.issue, "important")
    /\ ValidDate(selected.issue)
    /\ \E i \in Range(fetched) :
         /\ ~Labelled(i, "urgent")
         /\ Labelled(i, "important")
         /\ ValidDate(i)
         /\ Ms(i) < Ms(selected.issue)

Oldest(ws) == {i \in Range(ws) : \A j \in Range(ws) : Ms(i) <= Ms(j)}

\* C6: when several surviving issues share the minimum updated_at, the one
\* first in the fetched order is returned, and a second run on the same
\* list returns the same issue.
C6_TieBreakFirstInInput ==
    (selPc = "returned" /\ Len(fetched) > 0
       /\ \A i \in Range(working) : ValidDate(i)) =>
        /\ selected.kind = "issue"
        /\ selected.issue \in Oldest(working)
        /\ \A i \in Oldest(working) : selected.issue.number <= i.number
        /\ previous # Null => previous = selected

\* two issues tie on the minimum behind a younger first issue, second run
C6_Witness ==
    /\ selPc = "returned"
    /\ previous # Null
    /\ Len(working) = 3
    /\ \A i \in Range(working) : ValidDate(i)
    /\ Ms(working[2]) = Ms(working[3])
    /\ Ms(working[2]) < Ms(working[1])
    /\ selected = Found(working[2])

(***************************************************************************)
(* Properties of the session state machine (Spec)                          *)
(***************************************************************************)
AllIdle == \A p \in Procs : pc[p] = "idle"

ObjectsInModes ==
    /\ file.json.mode \in Modes
    /\ \A p \in Procs : obj[p].mode \in Modes /\ defState[p].mode \in Modes

\* C1: from a persisted state with mode work or break and with every file
\* write succeeding, each toggleSessionMode writes the opposite mode; after
\* k invocations the persisted mode equals the initial one exactly when k
\* is even; mode is never anything but work or break.
C1_ModeAlternation ==
    /\ [](ObjectsInModes)
    /\ []((initFile.kind = "json" /\ ~writeFailed /\ AllIdle) =>
            /\ file.kind = "json"
            /\ (file.json.mode = initFile.json.mode) <=> (runs % 2 = 0))
    /\ [][\A p \in Procs :
            (initFile.kind = "json" /\ ~writeFailed' /\ pc[p] = "toggle_write"
               /\ pc'[p] # "toggle_write") =>
                /\ file'.kind = "json"
                /\ file'.json.mode \in Modes \ {file.json.mode}]_vars

C1_Witness ==
    /\ AllIdle
    /\ initFile.kind = "json"
    /\ ~writeFailed
    /\ runs = 3
    /\ file.kind = "json"
    /\ file.json.mode # initFile.json.mode

\* the writeState call of toggleSessionMode in the current invocation
ToggleWriteOf(p) == log[p][1]

\* C2: on a work-to-break transition with N >= 1 suggestions, a stored
\* lastBreakIndex i >= -1 and succeeding writes, getNextBreakSuggestion
\* persists lastBreakIndex = (i + 1) mod N and returns the suggestion at
\* that index.
C2_NextSuggestion ==
    \A p \in Procs :
        (/\ pc[p] = "done"
         /\ ~writeFailed
         /\ Len(breakSuggestions) >= 1
         /\ Len(log[p]) >= 1
         /\ ToggleWriteOf(p).e = "write"
         /\ ToggleWriteOf(p).mode = "break"
         /\ ToggleWriteOf(p).num
         /\ ToggleWriteOf(p).idx >= -1) =>
            LET n == Len(breakSuggestions)
                new == (ToggleWriteOf(p).idx + 1) % n
                last == log[p][Len(log[p])]
            IN /\ last.e = "print_suggestion"
               /\ last.idx = new
               /\ last.mode = breakSuggestions[new + 1]
               /\ file = FileJson(State("break", new))

\* three suggestions, stored index 2: index 0 and the first suggestion
C2_Witness ==
    \E p \in Procs :
        /\ pc[p] = "done"
        /\ ~writeFailed
        /\ Len(breakSuggestions) = 3
        /\ Len(log[p]) >= 1
        /\ ToggleWriteOf(p) = Ev("write", "break", 2, TRUE)
        /\ log[p][Len(log[p])] = Ev("print_suggestion", "A", 0, TRUE)
        /\ file = FileJson(State("break", 0))

\* positions at which a readState call has just returned its state
AfterRead == {"toggle_write", "gnbs_calc", "ubi_write"}

\* C9: when the file write of toggleSessionMode or updateBreakIndex fails,
\* the call still returns the updated state instead of throwing, and every
\* later readState of the process returns that in-memory state.
C9_WriteFailureKeepsState ==
    /\ [](\A p \in Procs :
            (pc[p] \in AfterRead /\ memory[p].on) =>
                Deref(p, ref[p]) = memory[p].state)
    /\ [][\A p \in Procs :
            /\ pc[p] = "toggle_write" =>
                 pc'[p] \in {"toggle_write", "fetch", "gnbs_read"}
            /\ pc[p] = "ubi_write" =>
                 pc'[p] \in {"ubi_write", "print"}]_vars

\* the positions of getNextBreakSuggestion up to its updateBreakIndex call
InLookup == {"gnbs_read", "gnbs_wd", "gnbs_calc", "ubi_read", "ubi_wd", "ubi_write"}

WrittenBefore(p, k, m) ==
    \E j \in 1..(k - 1) : log[p][j].e = "write" /\ log[p][j].mode = m

\* C10: in every invocation the state write comes before the report: the
\* toggled mode is written (writeState has been called and, unless the
\* write failed, the file holds it) before the issue fetch or the
\* suggestion lookup begins, and the advanced lastBreakIndex is written
\* before the suggestion is printed.
C10_WriteBeforeReport ==
    \A p \in Procs :
        /\ \A k \in DOMAIN log[p] :
             /\ log[p][k].e = "fetch" => WrittenBefore(p, k, "work")
             /\ log[p][k].e = "lookup" => WrittenBefore(p, k, "break")
             /\ log[p][k].e = "print_suggestion" =>
                  \E j \in 1..(k - 1) :
                      /\ log[p][j].e = "write"
                      /\ log[p][j].mode = "break"
                      /\ log[p][j].idx = log[p][k].idx
                      /\ \E l \in 1..(j - 1) : log[p][l].e = "lookup"
        /\ (pc[p] = "fetch" /\ ~writeFailed) =>
             file.kind = "json" /\ file.json.mode = "work"
        /\ (pc[p] \in InLookup /\ ~writeFailed) =>
             file.kind = "json" /\ file.json.mode = "break"
        /\ (pc[p] = "print" /\ ~writeFailed) =>
             file = FileJson(State("break", nextIndex[p]))

\* a break transition that printed its suggestion, all writes succeeding
C10_Witness ==
    \E p \in Procs :
        /\ pc[p] = "done"
        /\ ~writeFailed
        /\ Len(log[p]) = 4
        /\ log[p][1].e = "write"
        /\ log[p][2].e = "lookup"
        /\ log[p][3].e = "write"
        /\ log[p][4].e = "print_suggestion"
        /\ file.json.lastBreakIndex = log[p][4].idx

(***************************************************************************)
(* Properties of the batch labeling loop (SpecBatch)                       *)
(***************************************************************************)
InLoop == {"classify", "apply", "record"}

\* C7: for every fetched issue array, of any length, the result carries a
\* summary with success + failed = total = number of fetched issues, and
\* during the loop success + failed is the number of issues processed.
C7_BatchInvariant ==
    /\ bPc \in InLoop => bSummary.success + bSummary.failed = bIdx - 1
    /\ bPc = "returned" =>
         /\ bReturn.hasSummary
         /\ bReturn.summary.total = Len(bIssues)
         /\ bReturn.summary.success + bReturn.summary.failed = bReturn.summary.total

ModelCalls == SelectSeq(bCalls, LAMBDA c : c.op = "model")

\* C8: a failure while processing one issue never ends the batch: once the
\* issues are fetched the run does not reject, every fetched issue is
\* classified exactly once in input order, and the results hold one entry
\* per issue, in input order.
C8_NoEarlyEnd ==
    /\ bPc = "rejected" => bIdx = 0
    /\ bPc = "returned" =>
         /\ ModelCalls = [i \in 1..Len(bIssues) |-> Call("model", bIssues[i].number)]
         /\ Len(bIssues) > 0 =>
              /\ bReturn.hasSummary
              /\ Len(bReturn.results) = Len(bIssues)
              /\ \A i \in 1..Len(bIssues) :
                   bReturn.results[i].issue = bIssues[i].number

\* the classifier fails on the first issue, the label write on the second,
\* the third is labelled
C8_Witness ==
    /\ bPc = "returned"
    /\ Len(bIssues) = 3
    /\ Len(bReturn.results) = 3
    /\ bReturn.results[1].reason = "processing_error"
    /\ bReturn.results[2].reason = "processing_error"
    /\ bReturn.results[3].action = "labels_applied"
    /\ Len(SelectSeq(bCalls, LAMBDA c : c.op = "apply")) = 2

(***************************************************************************)
(* Frame conditions of the session state machine (Spec)                    *)
(***************************************************************************)
\* the state object of process p after the step
DerefNext(p) == IF ref[p] = "def" THEN defState'[p] ELSE obj'[p]

\* the event the step appends to the log of process p
Appended(p) == log'[p][Len(log[p]) + 1]

\* C11: toggleSessionMode writes the state it read with only mode changed
\* and updateBreakIndex writes the state it read with only lastBreakIndex
\* changed; a break-to-work transition leaves the persisted lastBreakIndex
\* as it was, and the work session writes nothing; with no (readable)
\* state file the first invocation persists mode work, lastBreakIndex -1.
C11_FrameEffect ==
    /\ [][\A p \in Procs :
            LET s == Deref(p, ref[p])
                t == DerefNext(p)
            IN /\ (pc[p] = "toggle_write" /\ pc'[p] # "toggle_write") =>
                    /\ t = [s EXCEPT !.mode = t.mode]
                    /\ t.mode # s.mode
                    /\ Appended(p).e = "write"
                    /\ Appended(p).mode = t.mode
                    /\ Appended(p).idx = s.lastBreakIndex
                    /\ Appended(p).num = s.numeric
                    /\ file' \in {file, FileJson(t)}
               /\ (pc[p] = "ubi_write" /\ pc'[p] # "ubi_write") =>
                    /\ t = [s EXCEPT !.lastBreakIndex = nextIndex[p],
                                     !.numeric = TRUE]
                    /\ Appended(p).e = "write"
                    /\ Appended(p).mode = s.mode
                    /\ Appended(p).idx = nextIndex[p]
                    /\ file' \in {file, FileJson(t)}
               /\ (pc[p] = "toggle_write" /\ pc'[p] = "fetch" /\ ~writeFailed') =>
                    /\ file.kind = "json"
                    /\ file' = FileJson([file.json EXCEPT !.mode = "work"])
               /\ pc[p] = "fetch" => file' = file]_vars
    /\ []((AllIdle /\ runs = 1 /\ initFile.kind # "json" /\ ~writeFailed) =>
            file = FileJson(State("work", -1)))

\* no state file, one invocation, every write succeeding
C11_Witness ==
    /\ AllIdle
    /\ runs = 1
    /\ initFile = FileMissing
    /\ ~writeFailed
    /\ file = FileJson(State("work", -1))

(***************************************************************************)
(* Rotation of the break suggestions (SpecRotation)                        *)
(***************************************************************************)
\* C12: with N >= 1 suggestions, writes succeeding and a stored index the
\* program itself can have written (>= -1, see InitRotation), consecutive
\* break transitions return consecutive positions of the list cyclically,
\* each returning the suggestion at its position; the (N+1)-th returns what
\* the 1st returned.
C12_Rotation ==
    LET n == Len(breakSuggestions)
        k == Len(suggested)
    IN (n >= 1 /\ ~writeFailed) =>
         /\ \A j \in 1..k :
              /\ suggested[j].idx \in 0..(n - 1)
              /\ suggested[j].text = breakSuggestions[suggested[j].idx + 1]
         /\ \A j \in 1..(k - 1) :
              suggested[j + 1].idx = (suggested[j].idx + 1) % n
         /\ \A j \in 1..(k - n) : suggested[j + n] = suggested[j]

\* three suggestions, four break transitions: the fourth repeats the first
C12_Witness ==
    /\ Len(breakSuggestions) = 3
    /\ ~writeFailed
    /\ Len(suggested) = 4
    /\ suggested[1].text = "B"
    /\ suggested[3].text = "A"
    /\ suggested[4].text = "B"

(***************************************************************************)
(* The empty suggestion list (Spec)                                        *)
(***************************************************************************)
Events(p) == {log[p][k].e : k \in DOMAIN log[p]}

\* C13: with an empty suggestion list a work-to-break transition whose
\* toggle did not throw ends by reporting "No break suggestions available":
\* nothing is thrown, no index is computed or stored (updateBreakIndex is
\* not called), and the state is left with mode break, in the file when
\* the toggle's write succeeded.
C13_EmptySuggestions ==
    \A p \in Procs :
        (/\ pc[p] = "done"
         /\ Len(breakSuggestions) = 0
         /\ Len(log[p]) >= 1
         /\ ToggleWriteOf(p).e = "write"
         /\ ToggleWriteOf(p).mode = "break"
         /\ ToggleWriteOf(p).ok \/ revision = "backup") =>
            /\ log[p][Len(log[p])].e = "print_none"
            /\ "error" \notin Events(p)
            /\ "print_suggestion" \notin Events(p)
            /\ \A k \in 2..Len(log[p]) : log[p][k].e # "write"
            /\ nextIndex[p] = 0
            /\ Deref(p, ref[p]).mode = "break"
            /\ ToggleWriteOf(p).ok =>
                 /\ file.kind = "json"
                 /\ file.json.mode = "break"
                 /\ file.json.lastBreakIndex = ToggleWriteOf(p).idx

\* work to break with no suggestions, the toggle written to the file
C13_Witness ==
    \E p \in Procs :
        /\ pc[p] = "done"
        /\ Len(breakSuggestions) = 0
        /\ initFile = FileJson(State("work", 1))
        /\ log[p] = <<Ev("write", "break", 1, TRUE), Ev("lookup", "-", 0, TRUE),
                      Ev("print_none", "-", 0, TRUE)>>
        /\ file = FileJson(State("break", 1))

(***************************************************************************)
(* Stages of the priority resolver that find nothing (SpecSelect)          *)
(***************************************************************************)
\* the algorithm with the urgent stage removed
WithoutUrgentStage(issues) ==
    IF Len(issues) = 0 THEN Null
    ELSE FirstOf(SortByUpdated(getIssuesWithLabel(issues, "important")
                                 \o (IF \E i \in Range(issues) : Labelled(i, "important")
                                       THEN <<>> ELSE issues)))

\* the algorithm with the important stage removed
WithoutImportantStage(issues) ==
    IF Len(issues) = 0 THEN Null
    ELSE FirstOf(SortByUpdated(getIssuesWithLabel(issues, "urgent")
                                 \o (IF \E i \in Range(issues) : Labelled(i, "urgent")
                                       THEN <<>> ELSE issues)))

\* C14: if no fetched issue carries 'urgent', selectNextIssue returns what
\* the algorithm without the urgent stage returns (important issues if any,
\* else all, oldest first); if no issue left by the urgent stage carries
\* 'important', it returns what the algorithm without the important stage
\* returns, and each such stage leaves the working set as it found it.
C14_StageNoOp ==
    /\ (selPc = "urgent_done"
          /\ \A i \in Range(fetched) : ~Labelled(i, "urgent")) =>
            working = fetched
    /\ (selPc = "important_done"
          /\ \A i \in Range(UrgentStage(fetched)) : ~Labelled(i, "important")) =>
            working = UrgentStage(fetched)
    /\ (selPc = "returned"
          /\ \A i \in Range(fetched) : ~Labelled(i, "urgent")) =>
            selected = WithoutUrgentStage(fetched)
    /\ (selPc = "returned"
          /\ \A i \in Range(UrgentStage(fetched)) : ~Labelled(i, "important")) =>
            selected = WithoutImportantStage(fetched)

\* no urgent and no important issue among three: the oldest of all, which
\* is not the first fetched
C14_Witness ==
    /\ selPc = "returned"
    /\ Len(fetched) = 3
    /\ \A i \in Range(fetched) :
         ~Labelled(i, "urgent") /\ ~Labelled(i, "important") /\ ValidDate(i)
    /\ selected = Found(fetched[3])
    /\ Ms(fetched[3]) < Ms(fetched[1])
    /\ Ms(fetched[3]) < Ms(fetched[2])

(***************************************************************************)
(* Properties of retry (SpecRetry)                                         *)
(***************************************************************************)
RetrySettled == rPc \in {"resolved", "rejected"}

\* C15: retry(fn, {retries: r}) with r >= 0 calls fn at most r + 1 times,
\* never again after a call that succeeded, and resolves with that call's
\* value; it rejects only after r + 1 failed calls, with the error of the
\* last one; and it settles in every case.
C15_Retry ==
    /\ [](/\ Len(rCalls) <= rRetries + 1
          /\ \A i \in 1..(Len(rCalls) - 1) : ~rCalls[i].ok
          /\ rPc = "resolved" =>
               /\ rCalls[Len(rCalls)].ok
               /\ rSettled = rCalls[Len(rCalls)]
          /\ rPc = "rejected" =>
               /\ Len(rCalls) = rRetries + 1
               /\ \A i \in 1..Len(rCalls) : ~rCalls[i].ok
               /\ rSettled = rCalls[Len(rCalls)]
          /\ ~RetrySettled => rSettled = Unsettled)
    /\ <>RetrySettled

\* retries: 2 as getAllOpenIssues passes it: three failed calls, the
\* rejection carries the error of the third
C15_Witness ==
    /\ rPc = "rejected"
    /\ rRetries = 2
    /\ Len(rCalls) = 3
    /\ rCalls[1].val = "e1"
    /\ rCalls[3].val = "e2"
    /\ rSettled = [ok |-> FALSE, val |-> "e2"]
    /\ Len(rWaits) = 2

(***************************************************************************)
(* Properties of processIssue inside the batch (SpecBatch)                 *)
(***************************************************************************)
RateLimited == bModel.kind = "throw" /\ bModel.err = "rate_limit"

\* C16: when the classifier raises a rate-limit (HTTP 429) error for an
\* issue, the issue is recorded as failed with reason rate_limit_exceeded
\* and the batch goes on; three issues of which only the second fails
\* give the summary total 3, success 2, failed 1.
C16_RateLimitRecorded ==
    /\ (bPc = "record" /\ RateLimited) =>
         /\ ~bCur.threw
         /\ ~bCur.success
         /\ bCur.reason = "rate_limit_exceeded"
    /\ bPc = "rejected" => bIdx = 0
    /\ (/\ bPc = "returned"
        /\ Len(bIssues) = 3
        /\ bReturn.results[1].success
        /\ ~bReturn.results[2].success
        /\ bReturn.results[3].success) =>
           /\ bReturn.summary.total = 3
           /\ bReturn.summary.success = 2
           /\ bReturn.summary.failed = 1

\* the labels the model suggested that the configuration allows
AllowedOf(labels) == SelectSeq(labels, LAMBDA l : ToLowerCase(l) \in AllowedLabels)

ApplyCallsFor(n) == SelectSeq(bCalls, LAMBDA c : c = Call("apply", n))

\* C17: processIssue never passes to applyLabels a label outside the
\* allowed label set (compared case-insensitively); when none of the
\* suggested labels is allowed no label is written and the issue is
\* recorded as skipped_no_allowed_labels.
C17_OnlyAllowedLabels ==
    /\ bPc = "apply" =>
         \A l \in Range(bNew) : ToLowerCase(l) \in AllowedLabels
    /\ (/\ bPc = "record"
        /\ bModel.kind = "result"
        /\ Len(SuggestedLabels(bModel)) > 0
        /\ Len(AllowedOf(SuggestedLabels(bModel))) = 0) =>
           /\ bCur.action = "skipped_no_allowed_labels"
           /\ Len(ApplyCallsFor(bCur.issue)) = 0

\* C18: applyLabels is called only with labels the issue does not carry
\* under case-insensitive comparison, and with at least one; when every
\* suggested label is already present applyLabels is not called and the
\* result is success with action skipped_already_labeled.
C18_OnlyNewLabels ==
    /\ bPc = "apply" =>
         /\ Len(bNew) > 0
         /\ \A l \in Range(bNew) :
              /\ l \in Range(SuggestedLabels(bModel))
              /\ \A e \in bIssues[bIdx].labels : ToLowerCase(e) # ToLowerCase(l)
    /\ (/\ bPc = "record"
        /\ bModel.kind = "result"
        /\ Len(SuggestedLabels(bModel)) > 0
        /\ bIssues[bIdx].hasLabels
        /\ \A l \in Range(SuggestedLabels(bModel)) :
             \E e \in bIssues[bIdx].labels : ToLowerCase(e) = ToLowerCase(l)) =>
           /\ bCur.success
           /\ bCur.action = "skipped_already_labeled"
           /\ Len(ApplyCallsFor(bCur.issue)) = 0
    /\ (bPc = "record" /\ bCur.action = "labels_applied") =>
         /\ Len(ApplyCallsFor(bCur.issue)) = 1
         /\ \A l \in Range(bCur.labels) :
              \A e \in bIssues[bIdx].labels : ToLowerCase(e) # ToLowerCase(l)

\* the issue carries 'Important' and 'urgent', the model says 'Urgent' and
\* 'important': nothing is applied
C18_Witness ==
    /\ bPc = "record"
    /\ bIssues[bIdx].labels = {"urgent", "Important"}
    /\ SuggestedLabels(bModel) = <<"Urgent", "important">>
    /\ bCur.action = "skipped_already_labeled"
    /\ Len(ApplyCallsFor(bCur.issue)) = 0

(***************************************************************************)
(* Properties of validatePathSegment (SpecValidate)                        *)
(***************************************************************************)
\* C19: validatePathSegment either throws or returns its argument
\* unchanged: what it returns is a non-empty string of letters, digits,
\* '_', '-' and '.', equal to the argument; every argument containing '/',
\* a backslash, '..', white space or a control character is rejected.
C19_ValidateOrReject ==
    vResult # NotCalled =>
        /\ vResult.kind \in {"throw", "return"}
        /\ vResult.kind = "return" =>
             /\ vSegment.type = "string"
             /\ vResult.value = vSegment.chars
             /\ Len(vResult.value) > 0
             /\ \A i \in DOMAIN vResult.value : IsSafeChar(vResult.value[i])
        /\ (\/ Includes(vSegment.chars, "/")
            \/ Includes(vSegment.chars, "bs")
            \/ IncludesPair(vSegment.chars, ".", ".")
            \/ \E i \in DOMAIN vSegment.chars :
                  IsWhitespace(vSegment.chars[i]) \/ IsControl(vSegment.chars[i])) =>
             vResult.kind = "throw"

(***************************************************************************)
(* Properties of the output normalisation (SpecNormalise)                  *)
(***************************************************************************)
Trimmed(cs) ==
    Len(cs) > 0 => ~IsWhitespace(cs[1]) /\ ~IsWhitespace(cs[Len(cs)])

\* what the claim says of one field: the parsed value and its normal form
NormalisedAsClaimed(v, r) ==
    /\ ~r.isNull => Len(r.cs) > 0 /\ Trimmed(r.cs)
    /\ v = JNum(123) => r = NormStr(<<"1", "2", "3">>)
    /\ v \in {JNull, JUndefined} => r.isNull
    /\ (v.t = "string" /\ \A i \in DOMAIN v.cs : IsWhitespace(v.cs[i])) => r.isNull

\* C20: the normalisation returns, for each of urgency and importance,
\* null or a non-empty trimmed string: 123 gives "123"; null, undefined,
\* the empty string and white-space-only strings give null; no parsed
\* value, arrays and objects included, gives an empty string.
C20_Normalised ==
    nResult.done =>
        /\ NormalisedAsClaimed(nParsed.urgency, nResult.urgency)
        /\ NormalisedAsClaimed(nParsed.importance, nResult.importance)

(***************************************************************************)
(* Properties of readState's defaults (SpecDefaults)                       *)
(***************************************************************************)
\* the positions readState returns to
ReturnSites == {"toggle_write", "gnbs_calc", "ubi_write"}

\* the last step of process p was the catch branch of readState returning
FromCatch(p) ==
    /\ pc[p] \in ReturnSites
    /\ Len(log[p]) > 0
    /\ log[p][Len(log[p])].e = "write_default"

\* C21: every readState call that finds the state file missing or
\* unparseable writes mode 'break' with lastBreakIndex -1 and returns
\* exactly that state, whatever toggleSessionMode or updateBreakIndex calls
\* ran earlier in the same process.
C21_DefaultsOnMissingFile ==
    \A p \in Procs :
        /\ \A i \in DOMAIN log[p] :
               log[p][i].e = "write_default" =>
                   /\ log[p][i].mode = "break"
                   /\ log[p][i].idx = -1
                   /\ log[p][i].num
        /\ FromCatch(p) => Deref(p, ref[p]) = DEFAULT_STATE

(***************************************************************************)
(* Properties of selectNextIssue's error handling (SpecResolve)            *)
(***************************************************************************)
\* C22: when the open-issue fetch fails, selectNextIssue does not return
\* the null it returns for an empty list: the failure reaches the caller,
\* which never reports it as "No open issues available".
C22_FetchFailureSurfaced ==
    (~gFetch.ok /\ gPc \in {"selected", "reported"}) =>
        /\ gResult.kind = "throw"
        /\ gPc = "reported" => gReport # "No open issues available"

HasTimestamp(issue) == issue.updated_at.k = "iso"

\* the index of issue number n in the array s
PositionIn(s, n) == CHOOSE k \in DOMAIN s : s[k].number = n

\* C23: on a non-empty list with missing or unparseable updated_at values
\* selectNextIssue does not throw and returns an issue of the working set
\* that survived the label stages, and after the sort an issue without a
\* valid timestamp stands where it stood relative to every other issue.
C23_InvalidDatesKeepPlace ==
    (gPc \in {"selected", "reported"} /\ gFetch.ok /\ Len(gFetch.issues) > 0) =>
        LET w == WorkingSet(gFetch.issues)
        IN /\ gResult.kind = "issue"
           /\ gResult.issue \in Range(w)
           /\ \A i, j \in DOMAIN w :
                (i < j /\ (~HasTimestamp(w[i]) \/ ~HasTimestamp(w[j]))) =>
                    PositionIn(gSorted, w[i].number) < PositionIn(gSorted, w[j].number)

(***************************************************************************)
(* Properties of getAllOpenIssues (SpecList)                               *)
(***************************************************************************)
\* C24: a validation failure raised by listIssues (missing owner or repo,
\* invalid state, rejected path segment) is surfaced to the caller of
\* getAllOpenIssues after a single attempt, without a wait; only failed
\* requests are retried.
C24_ValidationNotRetried ==
    (Len(rCalls) > 0 /\ rCalls[1].val \in ValidationErrors) =>
        /\ Len(rCalls) = 1
        /\ rWaits = <<>>
        /\ rPc \in {"resolved", "rejected"} => rSettled = rCalls[1]

(***************************************************************************)
(* Properties of the request order of labelAllIssues (SpecBatch)           *)
(***************************************************************************)
\* C25: labelAllIssues has one issue in flight at a time: the classifier
\* request of the first issue opens the run, that of issue i+1 directly
\* follows the delay that ends issue i, a label write directly follows the
\* classifier request of the same issue, and the delay of an issue follows
\* its classifier request or its label write.
C25_OneIssueInFlight ==
    /\ \A k \in DOMAIN bCalls :
         LET c == bCalls[k]
         IN /\ c.op = "model" =>
                 IF c.issue = 1 THEN k = 1
                 ELSE k > 1 /\ bCalls[k - 1] = Call("delay", c.issue - 1)
            /\ c.op = "apply" => k > 1 /\ bCalls[k - 1] = Call("model", c.issue)
            /\ c.op = "delay" =>
                 k > 1 /\ bCalls[k - 1] \in {Call("model", c.issue), Call("apply", c.issue)}
    /\ bPc = "apply" => bCalls[Len(bCalls)] = Call("model", bIdx)
    /\ bPc = "classify" =>
         IF bIdx = 1 THEN bCalls = <<>>
         ELSE bCalls[Len(bCalls)] = Call("delay", bIdx - 1)

C25_Witness ==
    /\ bPc = "returned"
    /\ bCalls = <<Call("model", 1), Call("apply", 1), Call("delay", 1),
                  Call("model", 2), Call("delay", 2),
                  Call("model", 3), Call("apply", 3), Call("delay", 3)>>

ModelCallsFor(n) == SelectSeq(bCalls, LAMBDA c : c = Call("model", n))

\* C30: within one labelAllIssues run every issue processed so far caused
\* exactly one classifier call, and no issue ever causes more than one
\* applyLabels request, also when the request failed.
C30_OneCallPerIssue ==
    \A n \in DOMAIN bIssues :
        /\ Len(ModelCallsFor(n)) <= 1
        /\ Len(ApplyCallsFor(n)) <= 1
        /\ (n < bIdx \/ (bPc \in {"apply", "record"} /\ n = bIdx)) =>
               Len(ModelCallsFor(n)) = 1
        /\ n > bIdx => Len(ModelCallsFor(n)) = 0 /\ Len(ApplyCallsFor(n)) = 0

\* the label write of issue 1 failed and the run went on to the end
C30_Witness ==
    /\ bPc = "returned"
    /\ Len(bIssues) = 2
    /\ Len(ApplyCallsFor(1)) = 1
    /\ ~bReturn.results[1].success
    /\ Len(ModelCallsFor(2)) = 1

(***************************************************************************)
(* Properties of overlapping invocations (SpecConcurrent)                  *)
(***************************************************************************)
\* the mode after k toggles of mode m
ToggledTimes(m, k) ==
    IF k % 2 = 0 THEN m ELSE IF m = "work" THEN "break" ELSE "work"

\* the work-to-break transitions among k invocations in a row from mode m
BreakTransitions(m, k) == IF m = "work" THEN (k + 1) \div 2 ELSE k \div 2

\* lastBreakIndex i after k advances over a list of n suggestions
AdvancedTimes(i, k, n) == IF k = 0 THEN i ELSE (i + k) % n

\* C26: as long as no two invocations of runTaskCycler have overlapped,
\* the state file after the completed invocations is the one a sequential
\* order gives: the mode toggled once per invocation and lastBreakIndex
\* advanced once per work-to-break transition.  (With overlap the file has
\* no such guarantee: the witness is a mode toggled once by two completed
\* invocations.)
C26_SequentialWhenDisjoint ==
    (AllIdle /\ ~overlapped) =>
        /\ file.kind = "json"
        /\ file.json.mode = ToggledTimes(initFile.json.mode, runs)
        /\ file.json.lastBreakIndex =
             AdvancedTimes(initFile.json.lastBreakIndex,
                           BreakTransitions(initFile.json.mode, runs),
                           Len(breakSuggestions))

\* two overlapping invocations have completed and the mode is toggled once
C26_Witness ==
    /\ AllIdle
    /\ overlapped
    /\ runs = 2
    /\ file.json.mode # initFile.json.mode

(***************************************************************************)
(* Properties of the cycler under write failures (Spec)                    *)
(***************************************************************************)
\* lastBreakIndex of s lies in -1 .. N - 1 for the loaded suggestion list
IndexInRange(s) ==
    s.numeric /\ s.lastBreakIndex \in -1..(Len(breakSuggestions) - 1)

\* a non-empty suggestion list and a start from the defaults or from a
\* state file whose lastBreakIndex lies in -1 .. N - 1
StartsInRange ==
    /\ Len(breakSuggestions) >= 1
    /\ initFile.kind = "json" => IndexInRange(initFile.json)

\* C27: for a suggestion list of length N >= 1 and a start with
\* lastBreakIndex in -1 .. N - 1 (the default state included), whatever
\* invocations run and whichever file writes fail, the persisted and the
\* in-memory lastBreakIndex stay in -1 .. N - 1, and updateBreakIndex is
\* never called with an index below -1.
C27_IndexStaysInRange ==
    StartsInRange =>
        /\ file.kind = "json" => IndexInRange(file.json)
        /\ \A p \in Procs :
             /\ IndexInRange(obj[p])
             /\ IndexInRange(defState[p])
             /\ IndexInRange(memory[p].state)
             /\ pc[p] \in {"ubi_read", "ubi_wd", "ubi_write", "print"} =>
                    nextIndex[p] \in 0..(Len(breakSuggestions) - 1)
             /\ \A i \in DOMAIN log[p] :
                    log[p][i].e \in {"write", "write_default"} =>
                        log[p][i].num /\ log[p][i].idx >= -1

\* after a failed write the index has wrapped from N - 1 to 0 in the file
C27_Witness ==
    /\ StartsInRange
    /\ writeFailed
    /\ Len(breakSuggestions) = 2
    /\ initFile.kind = "json"
    /\ initFile.json.lastBreakIndex = 1
    /\ file.json.lastBreakIndex = 0
    /\ \E p \in Procs : memory[p].on /\ memory[p].state.lastBreakIndex = 1

(***************************************************************************)
(* Properties of a failed issue fetch (SpecFailedFetch)                    *)
(***************************************************************************)
\* C28: when the issue fetch fails in a break-to-work invocation,
\* runTaskCycler catches the error and resolves, the mode 'work' already
\* written stays in the state file, and the next invocation takes the
\* work-to-break path.
C28_ToggleNotRolledBack ==
    /\ \A p \in Procs : \A k \in DOMAIN log[p] :
         (log[p][k].e = "fetch" /\ ~log[p][k].ok) =>
             /\ pc[p] = "done"
             /\ k + 1 = Len(log[p])
             /\ log[p][k + 1].e = "error"
             /\ file.kind = "json"
             /\ file.json.mode = "work"
    /\ afterFailedFetch = "pending" => file.kind = "json" /\ file.json.mode = "work"
    /\ afterFailedFetch \in {"none", "pending", "work_to_break"}

\* the invocation after a failed fetch has gone the work-to-break way
C28_Witness ==
    /\ afterFailedFetch = "work_to_break"
    /\ \E p \in Procs : pc[p] = "done" /\ log[p][Len(log[p])].e = "print_suggestion"

(***************************************************************************)
(* Properties of the two writes of a work-to-break invocation (Spec)       *)
(***************************************************************************)
\* the writeState calls of toggleSessionMode / updateBreakIndex so far
WritesOf(p) == SelectSeq(log[p], LAMBDA ev : ev.e = "write")

\* the state a logged write put into the file
WrittenState(ev) == [mode |-> ev.mode, lastBreakIndex |-> ev.idx, numeric |-> ev.num]

\* C29: a work-to-break invocation writes the state file in two steps:
\* first mode 'break' with the lastBreakIndex it read, then the advanced
\* lastBreakIndex; updateBreakIndex runs only after the mode write, and
\* while the second write has not happened (or has failed) the file holds
\* mode 'break' with the index from before the transition.
C29_ModeThenIndex ==
    /\ [](\A p \in Procs :
            LET ws == WritesOf(p)
            IN /\ Len(ws) <= 2
               /\ pc[p] \in {"ubi_read", "ubi_wd", "ubi_write"} =>
                      Len(ws) = 1 /\ ws[1].mode = "break"
               /\ Len(ws) = 2 =>
                      /\ ws[1].mode = "break"
                      /\ ws[2].mode = "break"
                      /\ ws[2].idx = nextIndex[p]
               /\ (/\ Len(ws) >= 1
                   /\ ws[1].mode = "break"
                   /\ ws[1].ok
                   /\ (Len(ws) = 1 \/ ~ws[2].ok)) =>
                      file = FileJson(WrittenState(ws[1])))
    /\ [][\A p \in Procs :
            (/\ pc[p] = "toggle_write"
             /\ pc'[p] # "toggle_write"
             /\ Appended(p).mode = "break") =>
                /\ Appended(p).e = "write"
                /\ Appended(p).idx = Deref(p, ref[p]).lastBreakIndex
                /\ Appended(p).num = Deref(p, ref[p]).numeric]_vars

\* the mode write succeeded and the index write failed: the file keeps
\* mode 'break' with the old index 1 while index 2 was to be stored
C29_Witness ==
    \E p \in Procs :
        /\ pc[p] = "done"
        /\ Len(WritesOf(p)) = 2
        /\ WritesOf(p)[1] = Ev("write", "break", 1, TRUE)
        /\ WritesOf(p)[2] = Ev("write", "break", 2, FALSE)
        /\ file = FileJson(State("break", 1))

====
